---- MODULE Spec2Model ----
(***************************************************************************)
(* Session / conversation lifecycle of telegram-ai-bot.                    *)
(*                                                                         *)
(* ConversationService (the Session Coordinator) keeps one UserSession per *)
(* Telegram user id and one Conversation per persona epoch, and drives the *)
(* AssistantService (the Remote Assistant Gateway).  Every handler is one  *)
(* action; the outcome of each remote call it makes is an input of the     *)
(* action.  Uuids and remote ids are drawn from counters, so a fresh id    *)
(* differs from every id handed out before.                                *)
(*                                                                         *)
(* Spec: the handlers, each run to its end.  SpecSweep: the expiry sweep   *)
(* over a store of two users.  SpecPoll: the poll loop that awaits a run,  *)
(* on a clock of ticks, and SpecPollFair: the same under a fair event      *)
(* loop.  SpecAsync: the handlers as coroutines under the Application's    *)
(* update queue.  SpecEpochs: selections and resets of two users.          *)
(* SpecHistory: one long epoch of messages.  SpecModels: the character     *)
(* repository and the serialization of a session.  SpecSend: the wait as   *)
(* AssistantService.send_message starts it.  SpecLate: sends on one thread *)
(* whose runs may complete after the wait gave up.  SpecSelect: the        *)
(* character-selection callback.  SpecAgents: get_or_create_assistant      *)
(* awaited by several callers at once.  SpecRecent: reading the recent     *)
(* messages.  SpecFrame: one user's operations beside another user's       *)
(* session.                                                                *)
(***************************************************************************)
EXTENDS Integers, Sequences, FiniteSets, TLC

\* ------------------------------------------------------------------------
\* Bounds of the model
\* ------------------------------------------------------------------------
MaxThreads == 2        \* remote threads created in one behaviour
MaxAssistants == 2     \* remote assistants created in one behaviour
MaxSessions == 2       \* UserSession objects constructed in one behaviour
MaxMessages == 2       \* messages appended to one Conversation
MaxIdle == 2           \* seconds a session is left idle
MaxTimeout == 2        \* seconds _wait_for_run_completion is given
Second == 3            \* clock ticks in a second
MaxPollTicks == 2      \* clock ticks a remote call of the poll loop takes
MaxUpdates == 4        \* updates received in one behaviour
MaxQueue == 2          \* updates waiting in the queue
MaxHistory == 21       \* messages appended in one long epoch

Users == {42}
Characters == {"riley", "nika"}
Texts == {"hello"}
Responses == {"Test response from assistant"}
Timeouts == {1}

\* ------------------------------------------------------------------------
\* Values
\* ------------------------------------------------------------------------
\* models/user.py: Optional[str] fields default to None
None == "None"
\* an unset conversation / assistant / thread id (ids are counted from 1)
NoId == 0

\* python truthiness of an Optional id
IsSet(x) == x # NoId

USER == "user"
ASSISTANT == "assistant"

\* config/settings.py: Settings.max_retries
max_retries == 3

\* config/settings.py: Settings.max_conversation_history
max_conversation_history == 20

\* exceptions raised by AssistantService.send_message
RunErrors == {"Timeout", "RemoteRunFailed", "ProtocolError", "RemoteUnavailable"}

VARIABLES
    sessions,          \* ConversationService._sessions: user_id -> UserSession
    conversations,     \* ConversationService._conversations: id -> Conversation
    assistants_cache,  \* AssistantService._assistants_cache: character -> assistant
    remote_threads,    \* threads alive on the hosted-assistant side
    next_session,      \* uuid source for UserSession.id
    next_conversation, \* uuid source for Conversation.id
    next_thread,       \* id source of the remote thread API
    next_assistant,    \* id source of the remote assistant API
    last,              \* the operation that just returned, with what it saw
    run,               \* _wait_for_run_completion: where it is and what it saw
    loop,              \* the event loop: updates queued, handlers suspended
    remote_assistants, \* assistants alive on the hosted-assistant side
    hosted,            \* one hosted thread: its messages and runs, and the wait on it
    characters,        \* CharacterRepository._characters: id -> Character
    first_added,       \* history: the Character first added under each id
    persisted          \* a session, the dict written from it, the session read back

vars == <<sessions, conversations, assistants_cache, remote_threads,
          next_session, next_conversation, next_thread, next_assistant,
          last, run, loop, remote_assistants, hosted, characters,
          first_added, persisted>>

\* what the models and the hosted side hold besides the two services
models == <<remote_assistants, hosted, characters, first_added, persisted>>

\* ------------------------------------------------------------------------
\* models/user.py: UserSession
\* ------------------------------------------------------------------------
\* The clock is kept relative: a session's idle field is
\* datetime.utcnow() - last_activity in seconds, so last_activity = utcnow()
\* is idle = 0 and the passing of a second adds one to every session's idle.
UserSession(sid, uid) ==
    [id |-> sid, user_id |-> uid, character_id |-> None,
     conversation_id |-> NoId, assistant_id |-> NoId, thread_id |-> NoId,
     idle |-> 0, is_active |-> TRUE]

update_activity_deactivating(s) == [s EXCEPT !.idle = 0, !.is_active = FALSE]

update_activity(s) == [s EXCEPT !.idle = 0]

session_set_character(s, cid) ==
    update_activity([s EXCEPT !.character_id = cid])

set_conversation_unset(s, conv) == update_activity(s)

set_conversation(s, conv) ==
    update_activity([s EXCEPT !.conversation_id = conv])

set_assistant_thread_only_thread(s, aid, tid) ==
    update_activity([s EXCEPT !.thread_id = tid])

set_assistant_thread(s, aid, tid) ==
    update_activity([s EXCEPT !.assistant_id = aid, !.thread_id = tid])

session_reset_keeps_thread(s) ==
    update_activity([s EXCEPT !.character_id = None, !.conversation_id = NoId,
                              !.assistant_id = NoId])

session_reset(s) ==
    update_activity([s EXCEPT !.character_id = None, !.conversation_id = NoId,
                              !.assistant_id = NoId, !.thread_id = NoId])

is_expired_at_timeout(s, timeout_seconds) ==
    IF ~s.is_active THEN TRUE ELSE s.idle >= timeout_seconds

is_expired(s, timeout_seconds) ==
    IF ~s.is_active THEN TRUE ELSE s.idle > timeout_seconds

\* ------------------------------------------------------------------------
\* models/conversation.py: Message, Conversation
\* ------------------------------------------------------------------------
Message(role, content) == [role |-> role, content |-> content]

Conversation(cid, uid, character_id, aid, tid) ==
    [id |-> cid, user_id |-> uid, character_id |-> character_id,
     assistant_id |-> aid, thread_id |-> tid, messages |-> <<>>]

add_message_replacing(c, m) == [c EXCEPT !.messages = <<m>>]

add_message(c, m) == [c EXCEPT !.messages = Append(@, m)]

add_user_message_dropped(c, content) == c

add_user_message(c, content) == add_message(c, Message(USER, content))

add_assistant_message_as_user(c, content) == add_message(c, Message(USER, content))

add_assistant_message(c, content) == add_message(c, Message(ASSISTANT, content))

\* ------------------------------------------------------------------------
\* Functions with a changing domain (python dicts)
\* ------------------------------------------------------------------------
Put(f, k, v) == [x \in DOMAIN f \cup {k} |-> IF x = k THEN v ELSE f[x]]

Clear(f, k) == [x \in {} |-> f[x]]

Keep(f, k) == f

Del(f, k) == [x \in DOMAIN f \ {k} |-> f[x]]

Get(f, k, default) == IF k \in DOMAIN f THEN f[k] ELSE default

Empty == [x \in {} |-> None]

\* ------------------------------------------------------------------------
\* models/character.py: Character, CharacterRepository
\* ------------------------------------------------------------------------
\* a Character is told apart by its id and name; its other fields are
\* carried along with the name
Character(id, name) == [id |-> id, name |-> name]

\* CharacterRepository.add_character
repository_add_character(chars, character) == Put(chars, character.id, character)

get_character(chars, character_id) == Get(chars, character_id, None)

\* CharacterRepository._load_default_characters, for the default
\* characters the model selects
load_default_characters ==
    repository_add_character(
        repository_add_character(Empty, Character("riley", "Riley")),
        Character("nika", "Nika"))

\* services/character_service.py: CharacterService.add_character returns
\* True unless the repository raised, and the repository never raises
add_character(chars, character) ==
    [characters |-> repository_add_character(chars, character), ok |-> TRUE]

\* the characters that get registered: the defaults again, the test
\* character, and the same ids under another name
NewCharacters ==
    {Character(id, name) : id \in Characters \cup {"test_char"},
                           name \in {"Riley", "Test Character"}}

\* ------------------------------------------------------------------------
\* models/user.py: UserSession.to_dict / from_dict
\* models/database.py: SessionRecord.to_dict / from_dict
\* ------------------------------------------------------------------------
\* datetime.isoformat and datetime.fromisoformat: the text of a time
isoformat(t) == <<"iso", t>>

fromisoformat(text) == text[2]

\* created_at is written and read as last_activity is; the session's time
\* of last activity is its idle field
to_dict(s) ==
    [id |-> s.id, user_id |-> s.user_id, character_id |-> s.character_id,
     conversation_id |-> s.conversation_id, assistant_id |-> s.assistant_id,
     thread_id |-> s.thread_id, last_activity |-> isoformat(s.idle),
     is_active |-> s.is_active]

from_dict_always_active(data, uuid) ==
    [id |-> Get(data, "id", uuid),
     user_id |-> data["user_id"],
     character_id |-> Get(data, "character_id", None),
     conversation_id |-> Get(data, "conversation_id", NoId),
     assistant_id |-> Get(data, "assistant_id", NoId),
     thread_id |-> Get(data, "thread_id", NoId),
     idle |-> fromisoformat(data["last_activity"]),
     is_active |-> TRUE]

\* uuid: the id a session gets when the dict holds none
from_dict(data, uuid) ==
    [id |-> Get(data, "id", uuid),
     user_id |-> data["user_id"],
     character_id |-> Get(data, "character_id", None),
     conversation_id |-> Get(data, "conversation_id", NoId),
     assistant_id |-> Get(data, "assistant_id", NoId),
     thread_id |-> Get(data, "thread_id", NoId),
     idle |-> fromisoformat(data["last_activity"]),
     is_active |-> Get(data, "is_active", TRUE)]

SessionRecord(session_id, user_id, character_id, assistant_id, thread_id, last_activity, is_active) ==
    [session_id |-> session_id, user_id |-> user_id,
     character_id |-> character_id, assistant_id |-> assistant_id,
     thread_id |-> thread_id, last_activity |-> last_activity,
     is_active |-> is_active]

\* asdict(self), the times replaced by their text
record_to_dict(r) == [r EXCEPT !.last_activity = isoformat(@)]

\* cls(**data), the texts replaced by their times
record_from_dict(data) ==
    SessionRecord(data["session_id"], data["user_id"], data["character_id"],
                  data["assistant_id"], data["thread_id"],
                  fromisoformat(data["last_activity"]), data["is_active"])

\* nothing serialized yet
NoPersisted ==
    [stage |-> "none", session |-> None, data |-> None, restored |-> None,
     record |-> None, record_data |-> None, record_restored |-> None]

\* ------------------------------------------------------------------------
\* The world a handler runs in: the two services' fields, the remote side,
\* and the remote calls made so far by the running handler.
\* ------------------------------------------------------------------------
\* a hosted thread nothing was sent to: no message, no run, no wait;
\* awaited is the run the local wait polls, abandoned the runs it gave up
NoHosted == [messages |-> <<>>, runs |-> <<>>, awaited |-> NoId, abandoned |-> {}]

World ==
    [sessions |-> sessions, conversations |-> conversations,
     assistants_cache |-> assistants_cache, remote_threads |-> remote_threads,
     next_session |-> next_session, next_conversation |-> next_conversation,
     next_thread |-> next_thread, next_assistant |-> next_assistant,
     calls |-> <<>>]

Call(w, op, arg, ok) ==
    [w EXCEPT !.calls = Append(@, [op |-> op, arg |-> arg, ok |-> ok])]

\* ------------------------------------------------------------------------
\* services/assistant_service.py: AssistantService
\* ------------------------------------------------------------------------
get_or_create_assistant_uncached(w, character, lookupOk, createOk) ==
    LET aid == w.next_assistant
        w3 == Call(w, "create_assistant", character, createOk)
    IN  IF createOk
          THEN [w |-> [w3 EXCEPT !.assistants_cache = Put(@, character, aid),
                                 !.next_assistant = aid + 1],
                ok |-> TRUE, id |-> aid]
          ELSE [w |-> w3, ok |-> FALSE, id |-> NoId]

get_or_create_assistant_keeping_stale(w, character, lookupOk, createOk) ==
    LET cached == character \in DOMAIN w.assistants_cache
        hit == cached /\ lookupOk
        w1 == IF cached
                THEN Call(w, "retrieve_assistant", w.assistants_cache[character], lookupOk)
                ELSE w
        aid == w.next_assistant
        w3 == Call(w1, "create_assistant", character, createOk)
    IN  IF hit
          THEN [w |-> w1, ok |-> TRUE, id |-> w.assistants_cache[character]]
        ELSE IF createOk
          THEN [w |-> [w3 EXCEPT !.assistants_cache = Put(@, character, aid),
                                 !.next_assistant = aid + 1],
                ok |-> TRUE, id |-> aid]
        ELSE [w |-> w3, ok |-> FALSE, id |-> NoId]

\* get_or_create_assistant: returns [w, ok, id]; ok = FALSE when it raises
get_or_create_assistant(w, character, lookupOk, createOk) ==
    LET cached == character \in DOMAIN w.assistants_cache
        hit == cached /\ lookupOk
        w1 == IF cached
                THEN Call(w, "retrieve_assistant", w.assistants_cache[character], lookupOk)
                ELSE w
        w2 == IF cached /\ ~lookupOk
                THEN [w1 EXCEPT !.assistants_cache = Del(@, character)]
                ELSE w1
        aid == w.next_assistant
        w3 == Call(w2, "create_assistant", character, createOk)
    IN  IF hit
          THEN [w |-> w1, ok |-> TRUE, id |-> w.assistants_cache[character]]
        ELSE IF createOk
          THEN [w |-> [w3 EXCEPT !.assistants_cache = Put(@, character, aid),
                                 !.next_assistant = aid + 1],
                ok |-> TRUE, id |-> aid]
        ELSE [w |-> w3, ok |-> FALSE, id |-> NoId]

create_thread_reusing(w, assistant_id, user_id, character_id, threadOk) ==
    LET tid == IF w.next_thread > 1 THEN w.next_thread - 1 ELSE w.next_thread
        w1 == Call(w, "create_thread", user_id, threadOk)
    IN  IF threadOk
          THEN [w |-> [w1 EXCEPT !.remote_threads = @ \cup {tid},
                                 !.next_thread = tid + 1],
                ok |-> TRUE, id |-> tid]
          ELSE [w |-> w1, ok |-> FALSE, id |-> NoId]

\* create_thread: returns [w, ok, id]; ok = FALSE when it raises
create_thread(w, assistant_id, user_id, character_id, threadOk) ==
    LET tid == w.next_thread
        w1 == Call(w, "create_thread", user_id, threadOk)
    IN  IF threadOk
          THEN [w |-> [w1 EXCEPT !.remote_threads = @ \cup {tid},
                                 !.next_thread = tid + 1],
                ok |-> TRUE, id |-> tid]
          ELSE [w |-> w1, ok |-> FALSE, id |-> NoId]

\* delete_thread: never raises; returns [w, ok]
delete_thread(w, thread_id, deleteOk) ==
    LET w1 == Call(w, "delete_thread", thread_id, deleteOk)
    IN  IF deleteOk
          THEN [w |-> [w1 EXCEPT !.remote_threads = @ \ {thread_id}], ok |-> TRUE]
          ELSE [w |-> w1, ok |-> FALSE]

\* send_message: outcome is a response text or one of RunErrors;
\* returns [w, ok, value] with value the response or the exception raised
assistant_send_message(w, thread_id, assistant_id, message, user_id, outcome) ==
    LET w1 == Call(w, "send_message", thread_id, outcome \notin RunErrors)
    IN  [w |-> w1, ok |-> outcome \notin RunErrors, value |-> outcome]

\* ------------------------------------------------------------------------
\* services/assistant_service.py: _wait_for_run_completion
\* ------------------------------------------------------------------------
\* _wait_for_run_completion(self, thread_id, run_id, timeout: int = 30)
default_timeout == 30

\* statuses of a remote run; the last three end it without a response
RunStatuses == {"queued", "in_progress", "completed", "failed", "cancelled", "expired"}

TextPart(value) == [type |-> "text", value |-> value]

ImagePart == [type |-> "image_file", value |-> None]

Contents ==
    {<<>>, <<ImagePart>>} \cup
    UNION {{<<TextPart(r)>>, <<ImagePart, TextPart(r)>>,
            <<TextPart(r), TextPart("second part")>>} : r \in Responses}

\* what messages.list(limit=1) answers: no message, or the latest message
Listings ==
    {<<>>} \cup {<<[role |-> role, content |-> content]>> :
                    role \in {USER, ASSISTANT}, content \in Contents}

RECURSIVE first_text(_)
first_text(content) ==
    IF content = <<>> THEN None
    ELSE IF Head(content).type = "text" THEN Head(content).value
    ELSE first_text(Tail(content))

completed_run_any_role(listing) ==
    IF listing # <<>> /\ listing[1].content # <<>>
         /\ first_text(listing[1].content) # None
      THEN first_text(listing[1].content)
      ELSE "ProtocolError"

\* the run is completed: the response, or ValueError
completed_run(listing) ==
    IF listing # <<>> /\ listing[1].role = ASSISTANT /\ listing[1].content # <<>>
         /\ first_text(listing[1].content) # None
      THEN first_text(listing[1].content)
      ELSE "ProtocolError"

timed_out_never(elapsed, timeout) == FALSE

\* the timeout test at the top of the loop; elapsed is in ticks
timed_out(elapsed, timeout) == elapsed > timeout * Second

NoRun ==
    [pc |-> "idle", timeout |-> 0, elapsed |-> 0, slowest |-> 0, polls |-> 0,
     status |-> None, listing |-> <<>>, result |-> None, assistant_timeout |-> 0]

\* more than any wait lasts
MaxElapsed == (MaxTimeout + 2) * Second

\* a remote call is made through asyncio.to_thread and takes time, one tick
\* at least, before the coroutine runs on
PollTicks == 1..MaxPollTicks

Slowest(a, b) == IF a > b THEN a ELSE b

\* ------------------------------------------------------------------------
\* services/conversation_service.py: ConversationService
\* ------------------------------------------------------------------------
get_or_create_session_always_new(w, user_id) ==
    [w EXCEPT !.sessions = Put(@, user_id, UserSession(w.next_session, user_id)),
              !.next_session = @ + 1]

get_or_create_session(w, user_id) ==
    IF user_id \in DOMAIN w.sessions
      THEN [w EXCEPT !.sessions[user_id] = update_activity(@)]
      ELSE [w EXCEPT !.sessions = Put(@, user_id,
                                      UserSession(w.next_session, user_id)),
                     !.next_session = @ + 1]

reset_conversation_blocked_by_delete(w, user_id, deleteOk) ==
    LET w1 == get_or_create_session(w, user_id)
        session == w1.sessions[user_id]
        d == delete_thread(w1, session.thread_id, deleteOk)
        w3 == IF session.conversation_id \in DOMAIN w1.conversations
                THEN [d.w EXCEPT !.conversations = Del(@, session.conversation_id)]
                ELSE d.w
        character_id == session.character_id
        cleared == [session_reset(session) EXCEPT !.character_id = character_id]
    IN  IF ~IsSet(session.thread_id)
          THEN [w |-> [w1 EXCEPT !.sessions[user_id] = cleared], ok |-> TRUE]
        ELSE IF ~d.ok THEN [w |-> d.w, ok |-> FALSE]
        ELSE [w |-> [w3 EXCEPT !.sessions[user_id] = cleared], ok |-> TRUE]

\* reset_conversation: returns [w, ok]
reset_conversation(w, user_id, deleteOk) ==
    LET w1 == get_or_create_session(w, user_id)
        session == w1.sessions[user_id]
        w2 == IF IsSet(session.thread_id)
                THEN delete_thread(w1, session.thread_id, deleteOk).w
                ELSE w1
        w3 == IF IsSet(session.conversation_id)
                 /\ session.conversation_id \in DOMAIN w2.conversations
                THEN [w2 EXCEPT !.conversations = Del(@, session.conversation_id)]
                ELSE w2
        character_id == session.character_id
        cleared == [session_reset(session) EXCEPT !.character_id = character_id]
    IN  [w |-> [w3 EXCEPT !.sessions[user_id] = cleared], ok |-> TRUE]

changing_character_always(session, character) == TRUE

\* set_character, the test that decides whether a new epoch is started
changing_character(session, character) == session.character_id # character

\* set_character: returns [w, ok]; ok = FALSE when it raises
set_character(w, user_id, character, deleteOk, lookupOk, createOk, threadOk) ==
    LET w1 == get_or_create_session(w, user_id)
        session == w1.sessions[user_id]
        r == reset_conversation(w1, user_id, deleteOk)
        a == get_or_create_assistant(r.w, character, lookupOk, createOk)
        t == create_thread(a.w, a.id, user_id, character, threadOk)
        s1 == session_set_character(t.w.sessions[user_id], character)
        s2 == set_assistant_thread(s1, a.id, t.id)
        cid == t.w.next_conversation
        conversation == Conversation(cid, user_id, character, a.id, t.id)
        s3 == set_conversation(s2, cid)
    IN  IF changing_character(session, character)
          THEN IF ~a.ok THEN [w |-> a.w, ok |-> FALSE]
               ELSE IF ~t.ok THEN [w |-> t.w, ok |-> FALSE]
               ELSE [w |-> [t.w EXCEPT !.sessions[user_id] = s3,
                                       !.conversations = Put(@, cid, conversation),
                                       !.next_conversation = cid + 1],
                     ok |-> TRUE]
          ELSE [w |-> w1, ok |-> TRUE]

send_message_not_ready_empty(w) == [w |-> w, result |-> ""]

\* send_message, the return taken when no character is active
send_message_not_ready(w) == [w |-> w, result |-> None]

\* send_message: returns [w, result]; result is the response text or None
send_message(w, user_id, message_text, outcome) ==
    LET w1 == get_or_create_session(w, user_id)
        session == w1.sessions[user_id]
        found == session.conversation_id \in DOMAIN w1.conversations
        w2 == [w1 EXCEPT !.conversations[session.conversation_id] =
                             add_user_message(@, message_text)]
        g == assistant_send_message(w2, session.thread_id, session.assistant_id,
                                    message_text, user_id, outcome)
        w3 == [g.w EXCEPT !.conversations[session.conversation_id] =
                              add_assistant_message(@, g.value),
                          !.sessions[user_id] = update_activity(@)]
    IN  IF session.character_id = None \/ ~IsSet(session.assistant_id)
           \/ ~IsSet(session.thread_id)
          THEN send_message_not_ready(w1)
        ELSE IF ~found THEN [w |-> w1, result |-> None]
        ELSE IF ~g.ok THEN [w |-> g.w, result |-> None]
        ELSE [w |-> w3, result |-> g.value]

\* get_session_info: None for an unknown user, else the status record
get_session_info(w, user_id) ==
    IF user_id \notin DOMAIN w.sessions THEN None
    ELSE LET session == w.sessions[user_id]
             known == session.conversation_id \in DOMAIN w.conversations
         IN  [session_id |-> session.id,
              character_id |-> session.character_id,
              conversation_id |-> session.conversation_id,
              assistant_id |-> session.assistant_id,
              thread_id |-> session.thread_id,
              idle |-> session.idle,
              is_active |-> session.is_active,
              message_count |-> IF known
                                  THEN Len(w.conversations[session.conversation_id].messages)
                                  ELSE 0]

status_command_touching(w, user_id) ==
    LET w1 == get_or_create_session(w, user_id)
    IN  [w |-> w1, found |-> TRUE,
         count |-> get_session_info(w1, user_id).message_count]

\* handlers/command_handler.py: status_command asks get_session_info and
\* replies; returns [w, found, count], found = FALSE for the reply
\* "No active session found."
status_command(w, user_id) ==
    IF user_id \notin DOMAIN w.sessions
      THEN [w |-> w, found |-> FALSE, count |-> 0]
      ELSE [w |-> w, found |-> TRUE,
            count |-> get_session_info(w, user_id).message_count]

cleanup_expired_sessions_deleting_threads(w, timeout_seconds) ==
    LET expired_users == {u \in DOMAIN w.sessions :
                              is_expired(w.sessions[u], timeout_seconds)}
        gone == {w.sessions[u].conversation_id : u \in expired_users}
        threads == {w.sessions[u].thread_id : u \in expired_users}
    IN  [w |-> [w EXCEPT !.conversations = [c \in DOMAIN @ \ gone |-> @[c]],
                         !.sessions = [u \in DOMAIN @ \ expired_users |-> @[u]],
                         !.remote_threads = @ \ threads],
         count |-> Cardinality(expired_users)]

\* get_active_sessions_count
get_active_sessions_count(w) ==
    Cardinality({u \in DOMAIN w.sessions : w.sessions[u].is_active})

\* get_total_conversations_count
get_total_conversations_count(w) == Cardinality(DOMAIN w.conversations)

\* cleanup_expired_sessions: returns [w, count]
cleanup_expired_sessions(w, timeout_seconds) ==
    LET expired_users == {u \in DOMAIN w.sessions :
                              is_expired(w.sessions[u], timeout_seconds)}
        gone == {w.sessions[u].conversation_id : u \in expired_users}
    IN  [w |-> [w EXCEPT !.conversations = [c \in DOMAIN @ \ gone |-> @[c]],
                         !.sessions = [u \in DOMAIN @ \ expired_users |-> @[u]]],
         count |-> Cardinality(expired_users)]

\* ------------------------------------------------------------------------
\* The handlers as coroutines.  A handler runs from one remote call (an
\* await of asyncio.to_thread) to the next; between two of them the other
\* coroutines of the event loop may run.  A task is the frame of a handler:
\* the update it serves, the remote call it is suspended on (pc) and its
\* local variables (assistant_id, thread_id, conversation).
\* ------------------------------------------------------------------------
Task(update) ==
    [seq |-> update.seq, user |-> update.user, op |-> update.op,
     arg |-> update.arg, pc |-> "start", ok |-> TRUE,
     assistant_id |-> NoId, thread_id |-> NoId, conversation |-> NoId]

Returned(w, t) == [w |-> w, task |-> [t EXCEPT !.pc = "done"]]

Raised(w, t) == [w |-> w, task |-> [t EXCEPT !.pc = "done", !.ok = FALSE]]

Suspended(w, t, call) == [w |-> w, task |-> [t EXCEPT !.pc = call]]

\* get_or_create_assistant up to its first remote call
begin_assistant(w, t) ==
    IF t.arg \in DOMAIN w.assistants_cache
      THEN Suspended(w, [t EXCEPT !.assistant_id = w.assistants_cache[t.arg]],
                     "retrieve_assistant")
      ELSE Suspended(w, t, "create_assistant")

\* reset_conversation after its delete_thread, and set_character after its
\* reset_conversation
finish_reset(w, t) ==
    LET session == w.sessions[t.user]
        w3 == IF IsSet(session.conversation_id)
                 /\ session.conversation_id \in DOMAIN w.conversations
                THEN [w EXCEPT !.conversations = Del(@, session.conversation_id)]
                ELSE w
        character_id == session.character_id
        cleared == [session_reset(session) EXCEPT !.character_id = character_id]
        w4 == [w3 EXCEPT !.sessions[t.user] = cleared]
    IN  IF t.op = "reset_conversation" THEN Returned(w4, t)
        ELSE begin_assistant(w4, t)

\* reset_conversation up to its delete_thread
begin_reset(w, t) ==
    LET w1 == get_or_create_session(w, t.user)
        session == w1.sessions[t.user]
    IN  IF IsSet(session.thread_id)
          THEN Suspended(w1, [t EXCEPT !.thread_id = session.thread_id],
                         "delete_thread")
          ELSE finish_reset(w1, t)

begin_set_character_without_reset(w, t) ==
    LET w1 == get_or_create_session(w, t.user)
        session == w1.sessions[t.user]
    IN  IF changing_character(session, t.arg) THEN begin_assistant(w1, t)
        ELSE Returned(w1, t)

begin_set_character(w, t) ==
    LET w1 == get_or_create_session(w, t.user)
        session == w1.sessions[t.user]
    IN  IF changing_character(session, t.arg) THEN begin_reset(w1, t)
        ELSE Returned(w1, t)

\* set_character after its create_thread
finish_set_character(w, t, thread_id) ==
    LET s1 == session_set_character(w.sessions[t.user], t.arg)
        s2 == set_assistant_thread(s1, t.assistant_id, thread_id)
        cid == w.next_conversation
        conversation == Conversation(cid, t.user, t.arg, t.assistant_id, thread_id)
        s3 == set_conversation(s2, cid)
    IN  Returned([w EXCEPT !.sessions[t.user] = s3,
                           !.conversations = Put(@, cid, conversation),
                           !.next_conversation = cid + 1], t)

begin_send_message(w, t) ==
    LET w1 == get_or_create_session(w, t.user)
        session == w1.sessions[t.user]
        found == session.conversation_id \in DOMAIN w1.conversations
        w2 == [w1 EXCEPT !.conversations[session.conversation_id] =
                             add_user_message(@, t.arg)]
    IN  IF session.character_id = None \/ ~IsSet(session.assistant_id)
           \/ ~IsSet(session.thread_id)
          THEN Returned(w1, t)
        ELSE IF ~found THEN Returned(w1, t)
        ELSE Suspended(w2, [t EXCEPT !.thread_id = session.thread_id,
                                     !.assistant_id = session.assistant_id,
                                     !.conversation = session.conversation_id],
                       "send_message")

\* send_message after the assistant's answer; the Conversation it holds may
\* have left the store meanwhile
finish_send_message(w, t, outcome) ==
    LET w1 == IF t.conversation \in DOMAIN w.conversations
                THEN [w EXCEPT !.conversations[t.conversation] =
                                   add_assistant_message(@, outcome)]
                ELSE w
    IN  IF outcome \in RunErrors THEN Returned(w, t)
        ELSE Returned([w1 EXCEPT !.sessions[t.user] = update_activity(@)], t)

\* a handler from its call to its first remote call
begin(w, t) ==
    CASE t.op = "set_character" -> begin_set_character(w, t)
      [] t.op = "send_message" -> begin_send_message(w, t)
      [] t.op = "reset_conversation" -> begin_reset(w, t)

\* a handler from the answer of the remote call it is suspended on to its
\* next remote call; ok: the call did not raise; outcome: the run's answer
resume(w, t, ok, outcome) ==
    CASE t.pc = "delete_thread" ->
           finish_reset(delete_thread(w, t.thread_id, ok).w, t)
      [] t.pc = "retrieve_assistant" ->
           IF ok THEN Suspended(w, t, "create_thread")
           ELSE IF t.arg \in DOMAIN w.assistants_cache
             THEN Suspended([w EXCEPT !.assistants_cache = Del(@, t.arg)], t,
                            "create_assistant")
           ELSE Raised(w, t)
      [] t.pc = "create_assistant" ->
           IF ok
             THEN Suspended([w EXCEPT !.assistants_cache =
                                          Put(@, t.arg, w.next_assistant),
                                      !.next_assistant = @ + 1],
                            [t EXCEPT !.assistant_id = w.next_assistant],
                            "create_thread")
             ELSE Raised(w, t)
      [] t.pc = "create_thread" ->
           LET c == create_thread(w, t.assistant_id, t.user, t.arg, ok)
           IN  IF ok THEN finish_set_character(c.w, t, c.id)
               ELSE Raised(c.w, t)
      [] t.pc = "send_message" -> finish_send_message(w, t, outcome)

\* queue: Application.update_queue; tasks: the handlers that are suspended;
\* issued: the number of updates received; finished: the last two handlers
\* that have returned or raised, in that order, each with the number of
\* updates received by then; deleted: the threads delete_thread was called
\* for
NoLoop ==
    [queue |-> <<>>, tasks |-> {}, issued |-> 0, finished |-> <<>>,
     deleted |-> {}]

\* ------------------------------------------------------------------------
\* What the operation that just returned saw and did
\* ------------------------------------------------------------------------
NoSession == UserSession(NoId, NoId)

NoConversation == Conversation(NoId, NoId, None, NoId, NoId)

SessionOf(ss, user_id) == Get(ss, user_id, NoSession)

ConversationOf(cs, session) == Get(cs, session.conversation_id, NoConversation)

\* op: the method; user, arg: its arguments; ok: it returned (did not raise);
\* result: the text it returned; count: the number it returned;
\* outcome: what the remote run did; calls: the remote calls it made;
\* pre: the user's session when it was called (its idle time aside);
\* pre_convs: the Conversations held when it was called;
\* pre_sessions: the session store a sweep was called on
Record(op, user, arg, ok, result, count, outcome, calls, pre, pre_convs) ==
    [op |-> op, user |-> user, arg |-> arg, ok |-> ok, result |-> result,
     count |-> count, outcome |-> outcome, calls |-> calls,
     pre |-> pre, pre_convs |-> pre_convs, pre_sessions |-> Empty]

NoOp == Record("none", NoId, None, TRUE, None, 0, None, <<>>, NoSession, Empty)

WithinBounds(w) ==
    /\ w.next_session <= MaxSessions + 1
    /\ w.next_thread <= MaxThreads + 1
    /\ w.next_assistant <= MaxAssistants + 1
    /\ \A c \in DOMAIN w.conversations :
           Len(w.conversations[c].messages) <= MaxMessages

Commit(w, rec) ==
    /\ WithinBounds(w)
    /\ sessions' = w.sessions
    /\ conversations' = w.conversations
    /\ assistants_cache' = w.assistants_cache
    /\ remote_threads' = w.remote_threads
    /\ next_session' = w.next_session
    /\ next_conversation' = w.next_conversation
    /\ next_thread' = w.next_thread
    /\ next_assistant' = w.next_assistant
    /\ last' = rec
    /\ UNCHANGED <<run, loop, models>>

Pre(user_id) == [SessionOf(sessions, user_id) EXCEPT !.idle = 0]

\* ------------------------------------------------------------------------
\* Initial state: both services freshly constructed
\* ------------------------------------------------------------------------
Init ==
    /\ sessions = Empty
    /\ conversations = Empty
    /\ assistants_cache = Empty
    /\ remote_threads = {}
    /\ next_session = 1
    /\ next_conversation = 1
    /\ next_thread = 1
    /\ next_assistant = 1
    /\ last = NoOp
    /\ run = NoRun
    /\ loop = NoLoop
    /\ characters = load_default_characters
    /\ remote_assistants = {}
    /\ hosted = NoHosted
    /\ first_added = load_default_characters
    /\ persisted = NoPersisted

\* ------------------------------------------------------------------------
\* Operations.  A remote call that the handler does not reach has no
\* outcome to choose.
\* ------------------------------------------------------------------------
Outcomes(reached) == IF reached THEN BOOLEAN ELSE {TRUE}

\* set_character called for one of a set of users
SetCharacterBy(users) ==
    \E u \in users, c \in Characters :
      LET changing == changing_character(Pre(u), c)
          cached == c \in DOMAIN assistants_cache IN
      \E deleteOk \in Outcomes(changing /\ IsSet(Pre(u).thread_id)),
         lookupOk \in Outcomes(changing /\ cached) :
      \E createOk \in Outcomes(changing /\ ~(cached /\ lookupOk)) :
      \E threadOk \in Outcomes(changing /\ createOk) :
        \E r \in {set_character(World, u, c, deleteOk, lookupOk, createOk, threadOk)} :
            Commit(r.w, Record("set_character", u, c, r.ok, None, 0, None,
                               r.w.calls, Pre(u), conversations))

SetCharacter == SetCharacterBy(Users)

SendMessage ==
    \E u \in Users, text \in Texts, outcome \in Responses \cup RunErrors :
        \E r \in {send_message(World, u, text, outcome)} :
            Commit(r.w, Record("send_message", u, text, TRUE, r.result, 0,
                               IF r.w.calls = <<>> THEN None ELSE outcome,
                               r.w.calls, Pre(u), conversations))

\* reset_conversation called for one of a set of users
ResetConversationBy(users) ==
    \E u \in users : \E deleteOk \in Outcomes(IsSet(Pre(u).thread_id)) :
        \E r \in {reset_conversation(World, u, deleteOk)} :
            Commit(r.w, Record("reset_conversation", u, None, r.ok, None, 0, None,
                               r.w.calls, Pre(u), conversations))

ResetConversation == ResetConversationBy(Users)

\* /status; result tells whether a session was found, pre_sessions is the
\* session store it was called on
GetSessionInfo ==
    \E u \in Users :
        \E r \in {status_command(World, u)} :
            Commit(r.w, [Record("get_session_info", u, None, TRUE,
                                IF r.found THEN "found" ELSE None, r.count,
                                None, <<>>, Pre(u), conversations)
                             EXCEPT !.pre_sessions = sessions])

\* core/bot.py cleanup: the sweep; pre is the session of the user it is
\* reported for
CleanupExpiredSessions ==
    \E timeout_seconds \in Timeouts, u \in Users :
        \E r \in {cleanup_expired_sessions(World, timeout_seconds)} :
            Commit(r.w, [Record("cleanup_expired_sessions", u, timeout_seconds, TRUE,
                                None, r.count, None, r.w.calls, Pre(u), conversations)
                             EXCEPT !.pre_sessions = sessions])

\* a second passes between two operations
Tick ==
    /\ DOMAIN sessions # {}
    /\ \A u \in DOMAIN sessions : sessions[u].idle < MaxIdle
    /\ sessions' = [u \in DOMAIN sessions |-> [sessions[u] EXCEPT !.idle = @ + 1]]
    /\ UNCHANGED <<conversations, assistants_cache, remote_threads,
                   next_session, next_conversation, next_thread, next_assistant,
                   last, run, loop, models>>

Next ==
    \/ SetCharacter
    \/ SendMessage
    \/ ResetConversation
    \/ GetSessionInfo
    \/ CleanupExpiredSessions
    \/ Tick

Spec == Init /\ [][Next]_vars

\* ------------------------------------------------------------------------
\* The sweep over a store of two users.  The store is the one left by each
\* user's handlers: nothing, a message without a character, a character
\* selection, a selection and a message, a selection and a reset.
\* ------------------------------------------------------------------------
SweepUsers == <<42, 43>>

Histories == {"absent", "visitor", "selected", "chatting", "reset"}

EmptyWorld ==
    [sessions |-> Empty, conversations |-> Empty, assistants_cache |-> Empty,
     remote_threads |-> {}, next_session |-> 1, next_conversation |-> 1,
     next_thread |-> 1, next_assistant |-> 1, calls |-> <<>>]

History(w, u, h) ==
    LET response == CHOOSE r \in Responses : TRUE
        selected == set_character(w, u, "riley", TRUE, TRUE, TRUE, TRUE).w
    IN  CASE h = "absent" -> w
          [] h = "visitor" -> send_message(w, u, "hello", response).w
          [] h = "selected" -> selected
          [] h = "chatting" -> send_message(selected, u, "hello", response).w
          [] h = "reset" -> reset_conversation(selected, u, TRUE).w

\* n seconds pass
elapse(w, n) ==
    [w EXCEPT !.sessions = [u \in DOMAIN @ |-> [@[u] EXCEPT !.idle = @ + n]]]

InitSweep ==
    \E h1 \in Histories, h2 \in Histories, gap \in 0..MaxIdle :
      \E w \in {History(elapse(History(EmptyWorld, SweepUsers[1], h1), gap),
                         SweepUsers[2], h2)} :
        /\ WithinBounds(w)
        /\ sessions = w.sessions
        /\ conversations = w.conversations
        /\ assistants_cache = w.assistants_cache
        /\ remote_threads = w.remote_threads
        /\ next_session = w.next_session
        /\ next_conversation = w.next_conversation
        /\ next_thread = w.next_thread
        /\ next_assistant = w.next_assistant
        /\ last = NoOp
        /\ run = NoRun
        /\ loop = NoLoop
        /\ characters = load_default_characters
        /\ remote_assistants = {}
        /\ hosted = NoHosted
        /\ first_added = load_default_characters
        /\ persisted = NoPersisted

NextSweep ==
    \/ CleanupExpiredSessions
    \/ Tick

SpecSweep == InitSweep /\ [][NextSweep]_vars

\* ------------------------------------------------------------------------
\* The poll loop of _wait_for_run_completion, one step per suspension
\* ------------------------------------------------------------------------
\* start_time = loop.time()
StartWait ==
    /\ run.pc = "idle"
    /\ \E timeout \in 1..MaxTimeout :
           run' = [NoRun EXCEPT !.pc = "check", !.timeout = timeout]
    /\ UNCHANGED <<sessions, conversations, assistants_cache, remote_threads,
                   next_session, next_conversation, next_thread, next_assistant,
                   last, loop, models>>

\* top of the loop: raise TimeoutError, or go on to poll
CheckTimeout ==
    /\ run.pc = "check"
    /\ run' = IF timed_out(run.elapsed, run.timeout)
                THEN [run EXCEPT !.pc = "done", !.result = "Timeout"]
                ELSE [run EXCEPT !.pc = "retrieve"]
    /\ UNCHANGED <<sessions, conversations, assistants_cache, remote_threads,
                   next_session, next_conversation, next_thread, next_assistant,
                   last, loop, models>>

\* runs.retrieve and what follows from the status it answers
RetrieveRun ==
    /\ run.pc = "retrieve"
    /\ run.elapsed <= MaxElapsed
    /\ \E d \in PollTicks, callOk \in BOOLEAN, status \in RunStatuses :
         LET polled == [run EXCEPT !.elapsed = @ + d,
                                   !.slowest = Slowest(@, d),
                                   !.polls = @ + 1]
         IN  IF ~callOk
               THEN run' = [polled EXCEPT !.pc = "done",
                                          !.result = "RemoteUnavailable"]
             ELSE IF status = "completed"
               THEN \E d2 \in PollTicks, listing \in Listings :
                      run' = [polled EXCEPT !.pc = "done", !.status = status,
                                            !.elapsed = @ + d2,
                                            !.slowest = Slowest(@, d2),
                                            !.listing = listing,
                                            !.result = completed_run(listing)]
             ELSE IF status \in {"failed", "cancelled", "expired"}
               THEN run' = [polled EXCEPT !.pc = "done", !.status = status,
                                          !.result = "RemoteRunFailed"]
             ELSE run' = [polled EXCEPT !.pc = "sleep", !.status = status]
    /\ UNCHANGED <<sessions, conversations, assistants_cache, remote_threads,
                   next_session, next_conversation, next_thread, next_assistant,
                   last, loop, models>>

\* asyncio.sleep(1)
Sleep ==
    /\ run.pc = "sleep"
    /\ run.elapsed <= MaxElapsed
    /\ run' = [run EXCEPT !.pc = "check", !.elapsed = @ + Second]
    /\ UNCHANGED <<sessions, conversations, assistants_cache, remote_threads,
                   next_session, next_conversation, next_thread, next_assistant,
                   last, loop, models>>

NextPoll ==
    \/ StartWait
    \/ CheckTimeout
    \/ RetrieveRun
    \/ Sleep

SpecPoll == Init /\ [][NextPoll]_vars

\* AssistantService.send_message: messages.create, runs.create, then
\* self._wait_for_run_completion(thread_id, run.id); assistant_timeout is
\* what Settings.assistant_timeout was configured to
AssistantSendMessage ==
    /\ run.pc = "idle"
    /\ \E configured \in 1..MaxTimeout, callsOk \in BOOLEAN :
           run' = IF callsOk
                    THEN [NoRun EXCEPT !.pc = "check",
                                       !.timeout = default_timeout,
                                       !.assistant_timeout = configured]
                    ELSE [NoRun EXCEPT !.pc = "done",
                                       !.result = "RemoteUnavailable",
                                       !.assistant_timeout = configured]
    /\ UNCHANGED <<sessions, conversations, assistants_cache, remote_threads,
                   next_session, next_conversation, next_thread, next_assistant,
                   last, loop, models>>

NextSend ==
    \/ AssistantSendMessage
    \/ CheckTimeout
    \/ RetrieveRun
    \/ Sleep

SpecSend == Init /\ [][NextSend]_vars

\* The event loop runs a coroutine on once what it awaits is there: the
\* answer of a remote call, which is assumed to come, and the end of
\* asyncio.sleep(1).
SpecPollFair ==
    /\ SpecPoll
    /\ WF_vars(CheckTimeout)
    /\ WF_vars(RetrieveRun)
    /\ WF_vars(Sleep)

\* ------------------------------------------------------------------------
\* The bot under its Application: updates are queued as they are received
\* and the Application hands them to the handlers.
\* ------------------------------------------------------------------------
concurrent_updates_enabled == TRUE

\* core/bot.py: Application.builder().token(...).build() and handlers added
\* with their default block: the Application awaits the handler of an update
\* before it takes the next update from the queue
concurrent_updates == FALSE

\* callback query of a character button, text message, /startover
UpdateKinds ==
    {[op |-> "set_character", arg |-> c] : c \in Characters}
    \cup {[op |-> "send_message", arg |-> text] : text \in Texts}
    \cup {[op |-> "reset_conversation", arg |-> None]}

LastTwo(seq) == IF Len(seq) > 2 THEN Tail(seq) ELSE seq

\* the loop after a handler has run from old to t
Settle(l, old, t) ==
    IF t.pc = "done"
      THEN [l EXCEPT !.tasks = @ \ {old},
                     !.finished = LastTwo(Append(@, [seq |-> t.seq, user |-> t.user,
                                                     op |-> t.op, arg |-> t.arg,
                                                     ok |-> t.ok,
                                                     issued |-> l.issued]))]
      ELSE [l EXCEPT !.tasks = (@ \ {old}) \cup {t},
                     !.deleted = IF t.pc = "delete_thread"
                                   THEN @ \cup {t.thread_id} ELSE @]

CommitLoop(w, l) ==
    /\ WithinBounds(w)
    /\ sessions' = w.sessions
    /\ conversations' = w.conversations
    /\ assistants_cache' = w.assistants_cache
    /\ remote_threads' = w.remote_threads
    /\ next_session' = w.next_session
    /\ next_conversation' = w.next_conversation
    /\ next_thread' = w.next_thread
    /\ next_assistant' = w.next_assistant
    /\ loop' = l
    /\ UNCHANGED <<last, run, models>>

\* updater.start_polling: an update arrives
Receive ==
    /\ loop.issued < MaxUpdates
    /\ Len(loop.queue) < MaxQueue
    /\ \E u \in Users, kind \in UpdateKinds :
           loop' = [loop EXCEPT !.issued = @ + 1,
                                !.queue = Append(@, [seq |-> loop.issued + 1,
                                                     user |-> u, op |-> kind.op,
                                                     arg |-> kind.arg])]
    /\ UNCHANGED <<sessions, conversations, assistants_cache, remote_threads,
                   next_session, next_conversation, next_thread, next_assistant,
                   last, run, models>>

\* the Application takes the oldest update and calls its handler, which runs
\* to its first remote call
Dispatch ==
    /\ loop.queue # <<>>
    /\ concurrent_updates \/ loop.tasks = {}
    /\ \E r \in {begin(World, Task(Head(loop.queue)))} :
           CommitLoop(r.w, Settle([loop EXCEPT !.queue = Tail(@)], r.task, r.task))

\* a remote call is answered and the handler that awaits it runs on
Resume ==
    \E t \in loop.tasks :
      \E ok \in IF t.pc = "send_message" THEN {TRUE} ELSE BOOLEAN,
         outcome \in IF t.pc = "send_message" THEN Responses \cup RunErrors
                     ELSE {None} :
        \E r \in {resume(World, t, ok, outcome)} :
            CommitLoop(r.w, Settle(loop, t, r.task))

NextAsync ==
    \/ Receive
    \/ Dispatch
    \/ Resume

SpecAsync == Init /\ [][NextAsync]_vars

\* ------------------------------------------------------------------------
\* Epochs of two users: each selects characters and starts over
\* ------------------------------------------------------------------------
BothUsers == {SweepUsers[i] : i \in DOMAIN SweepUsers}

SetCharacterOfBoth == SetCharacterBy(BothUsers)

ResetConversationOfBoth == ResetConversationBy(BothUsers)

NextEpochs ==
    \/ SetCharacterOfBoth
    \/ ResetConversationOfBoth

SpecEpochs == Init /\ [][NextEpochs]_vars

\* ------------------------------------------------------------------------
\* One long epoch: a user selects a character and goes on sending messages
\* ------------------------------------------------------------------------
InitHistory ==
    \E u \in Users :
      \E w \in {set_character(EmptyWorld, u, "riley", TRUE, TRUE, TRUE, TRUE).w} :
        /\ sessions = w.sessions
        /\ conversations = w.conversations
        /\ assistants_cache = w.assistants_cache
        /\ remote_threads = w.remote_threads
        /\ next_session = w.next_session
        /\ next_conversation = w.next_conversation
        /\ next_thread = w.next_thread
        /\ next_assistant = w.next_assistant
        /\ last = NoOp
        /\ run = NoRun
        /\ loop = NoLoop
        /\ characters = load_default_characters
        /\ remote_assistants = {}
        /\ hosted = NoHosted
        /\ first_added = load_default_characters
        /\ persisted = NoPersisted

\* send_message, as long as the epoch is within MaxHistory messages
SendMessageInEpoch ==
    \E u \in Users, text \in Texts, outcome \in Responses \cup RunErrors :
        \E r \in {send_message(World, u, text, outcome)} :
            /\ \A c \in DOMAIN r.w.conversations :
                   Len(r.w.conversations[c].messages) <= MaxHistory
            /\ sessions' = r.w.sessions
            /\ conversations' = r.w.conversations
            /\ last' = Record("send_message", u, text, TRUE, r.result, 0,
                               outcome, r.w.calls, Pre(u), Empty)
            /\ UNCHANGED <<assistants_cache, remote_threads, next_session,
                           next_conversation, next_thread, next_assistant,
                           run, loop, models>>

NextHistory == SendMessageInEpoch

SpecHistory == InitHistory /\ [][NextHistory]_vars

\* ------------------------------------------------------------------------
\* The models on their own: characters are added to the repository, and a
\* session in any state is written to a dict and read back.
\* ------------------------------------------------------------------------
services == <<sessions, conversations, assistants_cache, remote_threads,
              next_session, next_conversation, next_thread, next_assistant,
              remote_assistants, hosted>>

\* a UserSession with every combination of set and unset fields
SessionStates ==
    {[UserSession(1, u) EXCEPT !.character_id = c, !.conversation_id = k,
                               !.assistant_id = a, !.thread_id = t,
                               !.idle = i, !.is_active = active] :
        u \in Users, c \in Characters \cup {None}, k \in {NoId, 1},
        a \in {NoId, 1}, t \in {NoId, 1}, i \in 0..1, active \in BOOLEAN}

InitModels ==
    \E s \in SessionStates :
        /\ sessions = Empty
        /\ conversations = Empty
        /\ assistants_cache = Empty
        /\ remote_threads = {}
        /\ next_session = 2
        /\ next_conversation = 1
        /\ next_thread = 1
        /\ next_assistant = 1
        /\ last = NoOp
        /\ run = NoRun
        /\ loop = NoLoop
        /\ characters = load_default_characters
        /\ remote_assistants = {}
        /\ hosted = NoHosted
        /\ first_added = load_default_characters
        /\ persisted =
               [NoPersisted EXCEPT
                   !.stage = "fresh", !.session = s,
                   !.record = SessionRecord(s.id, s.user_id, s.character_id,
                                            s.assistant_id, s.thread_id,
                                            s.idle, s.is_active)]

AddCharacter ==
    \E character \in NewCharacters :
      \E r \in {add_character(characters, character)} :
        /\ characters' = r.characters
        /\ first_added' = IF character.id \in DOMAIN first_added
                              THEN first_added
                              ELSE Put(first_added, character.id, character)
        /\ last' = [op |-> "add_character", arg |-> character, ok |-> r.ok,
                     pre_characters |-> characters]
        /\ UNCHANGED <<services, run, loop, persisted>>

ToDict ==
    /\ persisted.stage = "fresh"
    /\ persisted' = [persisted EXCEPT
                         !.stage = "written",
                         !.data = to_dict(persisted.session),
                         !.record_data = record_to_dict(persisted.record)]
    /\ UNCHANGED <<services, last, run, loop, characters, first_added>>

FromDict ==
    /\ persisted.stage = "written"
    /\ persisted' = [persisted EXCEPT
                         !.stage = "read",
                         !.restored = from_dict(persisted.data, next_session),
                         !.record_restored = record_from_dict(persisted.record_data)]
    /\ UNCHANGED <<services, last, run, loop, characters, first_added>>

NextModels ==
    \/ AddCharacter
    \/ ToDict
    \/ FromDict

SpecModels == InitModels /\ [][NextModels]_vars

\* ------------------------------------------------------------------------
\* Vocabulary of the properties
\* ------------------------------------------------------------------------
\* the session of the user of the last operation, as it is now
Cur == [SessionOf(sessions, last.user) EXCEPT !.idle = 0]

\* the Conversation bound to a session, in a log store
Log(store, session) == ConversationOf(store, session).messages

\* READY: persona, agent and thread all set
Ready(session) ==
    /\ session.character_id # None
    /\ IsSet(session.assistant_id)
    /\ IsSet(session.thread_id)

Binding(session) ==
    <<session.assistant_id, session.thread_id, session.conversation_id>>

\* how often the last operation invoked a remote operation
CallCount(op) == Cardinality({i \in DOMAIN last.calls : last.calls[i].op = op})

\* ------------------------------------------------------------------------
\* Properties
\* ------------------------------------------------------------------------

\* C1: set_character(U, P) on a session that already has persona P invokes
\* no remote operation (no create_thread, no delete_thread, no assistant
\* creation) and leaves the session's assistant, thread and conversation ids
\* as they were; a set_character(U, P) that starts the epoch and returns
\* invokes create_thread once, so two calls in a row invoke it exactly once.
C1_SelectSamePersonaNoOp ==
    last.op = "set_character" =>
        /\ last.pre.character_id = last.arg =>
              /\ last.ok
              /\ last.calls = <<>>
              /\ Binding(Cur) = Binding(last.pre)
              /\ Cur.character_id = last.arg
              /\ conversations = last.pre_convs
        /\ (last.pre.character_id # last.arg /\ last.ok) =>
              CallCount("create_thread") = 1

\* a second selection of the persona of a READY session has just returned
C1_Witness ==
    /\ last.op = "set_character"
    /\ last.pre.character_id = last.arg
    /\ Ready(last.pre)
    /\ Ready(Cur)

\* C2: send_message for a user who has no persona selected returns None
\* without raising, invokes no remote operation and leaves every
\* Conversation as it was.
C2_SendWithoutPersonaNotReady ==
    (last.op = "send_message" /\ last.pre.character_id = None) =>
        /\ last.ok
        /\ last.result = None
        /\ last.calls = <<>>
        /\ conversations = last.pre_convs

\* send_message has just returned for a user that had no session at all
C2_Witness ==
    /\ last.op = "send_message"
    /\ last.pre.id = NoId
    /\ last.result = None
    /\ last.user \in DOMAIN sessions

\* C3: whenever set_character(U, P) returns, U's session has persona P with
\* assistant and thread ids set, and if the call started a new epoch the
\* Conversation bound to the session is empty.
C3_SelectLeavesReady ==
    (last.op = "set_character" /\ last.ok) =>
        /\ Cur.character_id = last.arg
        /\ IsSet(Cur.assistant_id)
        /\ IsSet(Cur.thread_id)
        /\ CallCount("create_thread") = 1 =>
              /\ Cur.conversation_id \in DOMAIN conversations
              /\ Log(conversations, Cur) = <<>>

\* C4: on a READY session, when the remote run answers r, send_message
\* returns r and the session's Conversation grows by the user message with
\* the sent text followed by the assistant message with content r.
C4_SendAppendsUserThenAssistant ==
    (last.op = "send_message" /\ Ready(last.pre) /\ last.outcome \in Responses) =>
        /\ last.result = last.outcome
        /\ Cur.conversation_id = last.pre.conversation_id
        /\ Cur.conversation_id \in DOMAIN conversations
        /\ Log(conversations, Cur) =
             Log(last.pre_convs, last.pre)
               \o <<Message(USER, last.arg), Message(ASSISTANT, last.outcome)>>

\* a message has just been answered on a READY session
C4_Witness ==
    /\ last.op = "send_message"
    /\ Ready(last.pre)
    /\ last.result \in Responses
    /\ Len(Log(conversations, Cur)) = 2

\* C5: after reset_conversation on a session with persona P the persona is
\* still P, the assistant, thread and conversation ids are unset, the former
\* Conversation is gone from the store and get_session_info reports
\* message_count 0.
C5_ResetKeepsPersonaClearsRest ==
    (last.op = "reset_conversation" /\ last.pre.character_id # None) =>
        /\ last.ok
        /\ Cur.character_id = last.pre.character_id
        /\ ~IsSet(Cur.assistant_id)
        /\ ~IsSet(Cur.thread_id)
        /\ ~IsSet(Cur.conversation_id)
        /\ last.pre.conversation_id \notin DOMAIN conversations
        /\ get_session_info(World, last.user).message_count = 0

\* a READY session with messages in its Conversation has just been reset
C5_Witness ==
    /\ last.op = "reset_conversation"
    /\ Ready(last.pre)
    /\ Len(Log(last.pre_convs, last.pre)) > 0
    /\ Cur.character_id = last.pre.character_id

\* C6: when reset_conversation has succeeded on a READY session, the next
\* send_message of that user is accepted: it returns the assistant's
\* response unless the remote run fails.
C6_ChatContinuesAfterReset ==
    [][(/\ last.op = "reset_conversation"
        /\ last.ok
        /\ Ready(last.pre)
        /\ last'.op = "send_message"
        /\ last'.user = last.user)
       => (last'.result \in Responses \/ last'.outcome \in RunErrors)]_vars

\* C7: when get_or_create_assistant or create_thread raises during
\* set_character(U, P) on a session READY with another persona Q, the
\* session is left as it was: persona Q, the same assistant, thread and
\* conversation ids, the same Conversation, and no delete_thread issued.
C7_FailedSelectLeavesSession ==
    (/\ last.op = "set_character"
     /\ ~last.ok
     /\ Ready(last.pre)
     /\ last.pre.character_id # last.arg)
    => /\ Cur = last.pre
       /\ conversations = last.pre_convs
       /\ CallCount("delete_thread") = 0

\* C8: when the remote run fails during send_message on a READY session,
\* the Conversation has grown by the user message alone and the session's
\* persona, assistant and thread ids are as before.
C8_FailedSendKeepsUserMessage ==
    (last.op = "send_message" /\ Ready(last.pre) /\ last.outcome \in RunErrors) =>
        /\ Cur.conversation_id = last.pre.conversation_id
        /\ Cur.conversation_id \in DOMAIN conversations
        /\ Log(conversations, Cur) =
             Log(last.pre_convs, last.pre) \o <<Message(USER, last.arg)>>
        /\ Cur.character_id = last.pre.character_id
        /\ Cur.assistant_id = last.pre.assistant_id
        /\ Cur.thread_id = last.pre.thread_id

\* the remote run has just failed for a message sent on a READY session
C8_Witness ==
    /\ last.op = "send_message"
    /\ Ready(last.pre)
    /\ last.outcome \in RunErrors
    /\ Len(Log(conversations, Cur)) = Len(Log(last.pre_convs, last.pre)) + 1

\* C9: a remote failure during send_message reaches the caller as a typed
\* failure: what send_message hands its caller when the run ends in Timeout
\* or in RemoteRunFailed is not the not-ready signal None, and it tells the
\* two apart.
C9_FailureIsTyped ==
    (last.op = "send_message" /\ last.outcome \in {"Timeout", "RemoteRunFailed"}) =>
        /\ last.result # None
        /\ last.result = last.outcome

\* C10: every session in the store has its assistant id and its thread id
\* both set or both unset.
C10_AgentAndThreadTogether ==
    \A u \in DOMAIN sessions :
        IsSet(sessions[u].assistant_id) <=> IsSet(sessions[u].thread_id)

\* a session holds both ids after a remote call of its user has failed
C10_Witness ==
    /\ last.user \in DOMAIN sessions
    /\ last.outcome \in RunErrors
    /\ IsSet(Cur.assistant_id)
    /\ IsSet(Cur.thread_id)

\* C11: cleanup_expired_sessions(T) removes from the store exactly the
\* sessions that are inactive or idle for more than T seconds, together with
\* their Conversations; every other session and Conversation is retained
\* unchanged (a session idle for 0 seconds stays, one idle for T + 1 seconds
\* goes); and the number returned is the number of sessions removed.
C11_SweepRemovesExactlyExpired ==
    last.op = "cleanup_expired_sessions" =>
        LET T == last.arg
            before == last.pre_sessions
            removed == {u \in DOMAIN before :
                           ~before[u].is_active \/ before[u].idle > T}
            gone == {before[u].conversation_id : u \in removed}
        IN  /\ DOMAIN sessions = DOMAIN before \ removed
            /\ \E k \in 0..MaxIdle + 1 :
                   \A u \in DOMAIN sessions :
                       sessions[u] = [before[u] EXCEPT !.idle = @ + k]
            /\ DOMAIN conversations = DOMAIN last.pre_convs \ gone
            /\ \A c \in DOMAIN conversations :
                   conversations[c] = last.pre_convs[c]
            /\ last.count = Cardinality(removed)
            /\ \A u \in DOMAIN before :
                   /\ before[u].idle = 0 => u \in DOMAIN sessions
                   /\ before[u].idle = T + 1 => u \notin DOMAIN sessions

\* a sweep has just removed one of two sessions, with its Conversation, and
\* kept the other
C11_Witness ==
    /\ last.op = "cleanup_expired_sessions"
    /\ Cardinality(DOMAIN last.pre_sessions) = 2
    /\ Cardinality(DOMAIN sessions) = 1
    /\ last.count = 1
    /\ Cardinality(DOMAIN last.pre_convs) = 2
    /\ Cardinality(DOMAIN conversations) = 1

\* C12: the store holds at most one session per user id; a handler called
\* for a user that has a session works on that same session (same session
\* id), and one called for a user that has none (never seen, or removed by
\* a sweep) creates a session with an id never used before which, unless
\* that handler is a persona selection that succeeds, has no persona, agent,
\* thread or conversation.
C12_OneSessionPerUser ==
    /\ \A u \in DOMAIN sessions : sessions[u].user_id = u
    /\ \A u \in DOMAIN sessions : \A v \in DOMAIN sessions :
           sessions[u].id = sessions[v].id => u = v
    /\ last.op \in {"set_character", "send_message", "reset_conversation"} =>
           /\ last.user \in DOMAIN sessions
           /\ last.pre.id # NoId => Cur.id = last.pre.id
           /\ last.pre.id = NoId =>
                  /\ Cur.id = next_session - 1
                  /\ (last.op # "set_character" \/ ~last.ok) =>
                         Cur = UserSession(Cur.id, last.user)

\* a user whose session a sweep removed has just been given a second one
C12_Witness ==
    /\ last.op = "send_message"
    /\ last.pre.id = NoId
    /\ Cur.id = 2
    /\ Cur = UserSession(2, last.user)

\* the remote calls of one kind that the last operation made
CallsOf(rec, op) == {rec.calls[i] : i \in {j \in DOMAIN rec.calls : rec.calls[j].op = op}}

\* C16: as long as the cached assistant of a persona resolves remotely, no
\* operation replaces or drops the persona's cache entry: a set_character
\* whose get_or_create_assistant finds the cached assistant creates no
\* remote assistant and binds the session to the cached assistant id, so
\* the calls for that persona create one remote assistant in all.
C16_OneAssistantPerPersona ==
    [][\A c \in DOMAIN assistants_cache :
          LET lost == \E call \in CallsOf(last', "retrieve_assistant") :
                          call.arg = assistants_cache[c] /\ ~call.ok
              found == \E call \in CallsOf(last', "retrieve_assistant") :
                          call.arg = assistants_cache[c] /\ call.ok
          IN  ~lost =>
                /\ c \in DOMAIN assistants_cache'
                /\ assistants_cache'[c] = assistants_cache[c]
                /\ (found /\ last'.arg = c) =>
                      /\ next_assistant' = next_assistant
                      /\ CallsOf(last', "create_assistant") = {}
                      /\ last'.ok => sessions'[last'.user].assistant_id
                                        = assistants_cache[c]]_vars

\* a persona selection has just been served from the assistant cache, one
\* remote assistant having been created in all
C16_Witness ==
    /\ last.op = "set_character"
    /\ last.ok
    /\ \E call \in CallsOf(last, "retrieve_assistant") :
           call.ok /\ call.arg = Cur.assistant_id
    /\ CallCount("create_thread") = 1
    /\ next_assistant = 2
    /\ assistants_cache[last.arg] = Cur.assistant_id

\* C17: get_or_create_assistant gives up on creating the remote assistant
\* only after max_retries attempts: a failed creation attempt is either the
\* max_retries-th of the call or is followed by another attempt.
C17_CreationRetried ==
    last.op = "set_character" =>
        \A i \in DOMAIN last.calls :
            (last.calls[i].op = "create_assistant" /\ ~last.calls[i].ok) =>
                \/ Cardinality({j \in 1..i :
                                    last.calls[j].op = "create_assistant"}) = max_retries
                \/ \E j \in DOMAIN last.calls :
                       j > i /\ last.calls[j].op = "create_assistant"

\* C20: a reset_conversation whose delete_thread fails still returns True:
\* delete_thread is called once and returns False without raising, the
\* session keeps its persona and has its assistant, thread and conversation
\* ids cleared, and its Conversation is discarded, as when the deletion
\* succeeds.
C20_ResetNotBlockedByDelete ==
    (/\ last.op = "reset_conversation"
     /\ \E call \in CallsOf(last, "delete_thread") : ~call.ok)
    => /\ last.ok
       /\ last.calls = <<[op |-> "delete_thread", arg |-> last.pre.thread_id,
                          ok |-> FALSE]>>
       /\ Cur = [last.pre EXCEPT !.assistant_id = NoId, !.thread_id = NoId,
                                 !.conversation_id = NoId]
       /\ conversations = Del(last.pre_convs, last.pre.conversation_id)

\* a reset has just gone through although the remote thread, which is
\* still alive, could not be deleted
C20_Witness ==
    /\ last.op = "reset_conversation"
    /\ last.ok
    /\ Ready(last.pre)
    /\ last.pre.thread_id \in remote_threads
    /\ \E call \in CallsOf(last, "delete_thread") : ~call.ok
    /\ last.pre.conversation_id \in DOMAIN last.pre_convs
    /\ ~IsSet(Cur.thread_id)

\* the updates that wait in the queue
Queued == {loop.queue[i] : i \in DOMAIN loop.queue}

\* the last two handlers that finished served two persona selections of
\* one user, the second received before the first had finished, both
\* returned, and nothing has run since
TwoSelectionsDone ==
    /\ Len(loop.finished) = 2
    /\ loop.tasks = {}
    /\ \A i \in {1, 2} : loop.finished[i].op = "set_character" /\ loop.finished[i].ok
    /\ loop.finished[1].user = loop.finished[2].user
    /\ loop.finished[2].seq <= loop.finished[1].issued

\* C13: set_character is atomic per user: two selections of one user are
\* never in progress together, and when two selections of a user, received
\* together, have both returned, the session's persona is that of one of
\* them, the session has an assistant, a thread and a Conversation that
\* agree with each other, that Conversation is the only one of the user, and
\* delete_thread has been called for every other thread created.
C13_SelectIsAtomic ==
    /\ \A a \in loop.tasks : \A b \in loop.tasks :
           (a.op = "set_character" /\ b.op = "set_character" /\ a.user = b.user)
               => a = b
    /\ TwoSelectionsDone =>
           LET u == loop.finished[2].user
               session == sessions[u]
               mine == {c \in DOMAIN conversations : conversations[c].user_id = u}
           IN  /\ session.character_id \in {loop.finished[1].arg, loop.finished[2].arg}
               /\ Ready(session)
               /\ mine = {session.conversation_id}
               /\ \A c \in mine :
                      /\ conversations[c].character_id = session.character_id
                      /\ conversations[c].assistant_id = session.assistant_id
                      /\ conversations[c].thread_id = session.thread_id
               /\ \A t \in 1..(next_thread - 1) :
                      t # session.thread_id => t \in loop.deleted

\* C14: at most one handler of a user is in progress, suspended handlers
\* included, and no send_message is suspended on a thread that
\* delete_thread has been called for.
C14_OneOperationPerUser ==
    /\ \A a \in loop.tasks : \A b \in loop.tasks : a.user = b.user => a = b
    /\ \A t \in loop.tasks :
           t.pc = "send_message" => t.thread_id \notin loop.deleted

\* a send_message awaits the assistant while a /startover of the same user
\* waits in the queue, an earlier thread of the user having been deleted
C14_Witness ==
    /\ \E t \in loop.tasks : \E update \in Queued :
           /\ t.pc = "send_message"
           /\ t.thread_id \in remote_threads
           /\ update.user = t.user
           /\ update.op = "reset_conversation"
    /\ loop.deleted # {}

\* C15: the handlers of a user finish in the order in which their updates
\* were received: a handler that has finished served an older update than
\* the handler that finished after it and than every handler of the user
\* that is suspended or whose update still waits.
C15_FifoPerUser ==
    /\ Len(loop.finished) = 2 =>
           (loop.finished[1].user = loop.finished[2].user
               => loop.finished[1].seq < loop.finished[2].seq)
    /\ \A i \in DOMAIN loop.finished :
           \A x \in loop.tasks \cup Queued :
               x.user = loop.finished[i].user => loop.finished[i].seq < x.seq

\* a send_message that had to await the assistant has finished before the
\* persona selection received while it was awaiting
C15_Witness ==
    /\ Len(loop.finished) = 2
    /\ loop.finished[1].op = "send_message"
    /\ loop.finished[2].op = "set_character"
    /\ loop.finished[1].user = loop.finished[2].user
    /\ loop.finished[2].seq <= loop.finished[1].issued
    /\ \E c \in DOMAIN conversations : Len(conversations[c].messages) = 0
    /\ Cardinality(loop.deleted) = 1

\* statuses on which the poll loop goes on
Pending == {"queued", "in_progress"}

\* C18: _wait_for_run_completion with timeout T starts no poll later than T
\* seconds after its start, so a run that never reaches a terminal status
\* ends the wait with TimeoutError (or with the error of a remote call),
\* raised more than T and at most T plus one sleep plus one poll after the
\* start; with T = 1 and polls that take less than a second that is before
\* 2 seconds have elapsed.
C18_TimeoutIsBounded ==
    /\ run.pc = "retrieve" => run.elapsed <= run.timeout * Second
    /\ run.pc = "sleep" => run.elapsed <= run.timeout * Second + run.slowest
    /\ (run.pc = "done" /\ run.status \in Pending \cup {None}) =>
           run.result \in {"Timeout", "RemoteUnavailable"}
    /\ run.result = "Timeout" =>
           /\ run.status \in Pending
           /\ run.elapsed > run.timeout * Second
           /\ run.elapsed <= run.timeout * Second + Second + run.slowest
           /\ (run.timeout = 1 /\ run.slowest < Second) =>
                  run.elapsed < 2 * Second

\* a wait of one second on a run that stays pending has just timed out
C18_Witness ==
    /\ run.pc = "done"
    /\ run.result = "Timeout"
    /\ run.timeout = 1
    /\ run.status \in Pending
    /\ run.elapsed < 2 * Second

\* the text parts of the latest message, when an assistant wrote it
TextParts(listing) ==
    IF listing = <<>> \/ listing[1].role # ASSISTANT THEN {}
    ELSE {i \in DOMAIN listing[1].content : listing[1].content[i].type = "text"}

C21_DuplicateRejected ==
    /\ \A id \in DOMAIN first_added :
           get_character(characters, id) = first_added[id]
    /\ (last.op = "add_character" /\ last.arg.id \in DOMAIN last.pre_characters)
           => (~last.ok /\ characters = last.pre_characters)

\* ------------------------------------------------------------------------
\* C22: a session written with to_dict and read back with from_dict has
\* the character id, assistant id, thread id and active flag it had, and so
\* has a SessionRecord written and read back.
\* ------------------------------------------------------------------------
C22_RoundTripKeepsBinding ==
    persisted.stage = "read" =>
        /\ persisted.restored.character_id = persisted.session.character_id
        /\ persisted.restored.assistant_id = persisted.session.assistant_id
        /\ persisted.restored.thread_id = persisted.session.thread_id
        /\ persisted.restored.is_active = persisted.session.is_active
        /\ persisted.record_restored.character_id = persisted.record.character_id
        /\ persisted.record_restored.assistant_id = persisted.record.assistant_id
        /\ persisted.record_restored.thread_id = persisted.record.thread_id
        /\ persisted.record_restored.is_active = persisted.record.is_active

\* an inactive session with a character and no thread has been read back
C22_Witness ==
    /\ persisted.stage = "read"
    /\ ~persisted.session.is_active
    /\ persisted.session.character_id = "nika"
    /\ IsSet(persisted.session.assistant_id)
    /\ ~IsSet(persisted.session.thread_id)
    /\ persisted.restored = persisted.session


\* ------------------------------------------------------------------------
\* C23: however many messages are sent in an epoch, a Conversation never
\* holds more messages than Settings.max_conversation_history.
\* ------------------------------------------------------------------------
C23_LogBounded ==
    \A c \in DOMAIN conversations :
        Len(conversations[c].messages) <= max_conversation_history


\* ------------------------------------------------------------------------
\* C24: remote threads are never reused.  A set_character that starts an
\* epoch stores the thread id that create_thread returned in that same
\* operation, which is an id no session or Conversation has held before;
\* a session comes by a thread id in no other way; and no two users'
\* sessions hold the same thread.
\* ------------------------------------------------------------------------
\* the thread ids held by the sessions and Conversations of a store
ThreadsHeld(ss, cs) ==
    {ss[u].thread_id : u \in DOMAIN ss} \cup {cs[c].thread_id : c \in DOMAIN cs}

C24_ThreadsNeverReused ==
    /\ [](/\ \A t \in ThreadsHeld(sessions, conversations) : t < next_thread
           /\ \A u1 \in DOMAIN sessions, u2 \in DOMAIN sessions :
                  (u1 # u2 /\ IsSet(sessions[u1].thread_id))
                      => sessions[u1].thread_id # sessions[u2].thread_id)
    /\ [][/\ next_thread' >= next_thread
           /\ \A u \in DOMAIN sessions' :
                LET old == SessionOf(sessions, u).thread_id
                    new == sessions'[u].thread_id
                    epoch == /\ last'.op = "set_character"
                             /\ last'.user = u
                             /\ last'.ok
                             /\ changing_character(last'.pre, last'.arg)
                IN  /\ epoch =>
                          /\ \E c \in CallsOf(last', "create_thread") : c.ok
                          /\ new = next_thread
                          /\ next_thread' = next_thread + 1
                          /\ new \notin ThreadsHeld(sessions, conversations)
                    /\ (IsSet(new) /\ new # old) => epoch]_vars

\* the second user starts an epoch while the first is in one
C24_Witness ==
    /\ last.op = "set_character" /\ last.ok
    /\ last.user = SweepUsers[2]
    /\ DOMAIN sessions = BothUsers
    /\ sessions[SweepUsers[1]].thread_id = 1
    /\ sessions[SweepUsers[2]].thread_id = 2


\* ------------------------------------------------------------------------
\* C25: within an epoch the log is append-only, and a reset or a change of
\* character discards the Conversation whole.  Every Conversation held
\* when an operation was called is afterwards either held with its old
\* messages as a prefix of its messages and nothing else changed, or not
\* held at all; it is dropped only by reset_conversation and by a
\* set_character that changes the character, for the caller's own
\* Conversation, and by the sweep; and those two operations always drop
\* the caller's Conversation.
\* ------------------------------------------------------------------------
IsPrefix(a, b) == Len(a) <= Len(b) /\ SubSeq(b, 1, Len(a)) = a

\* the operation discards the caller's epoch
Discarding(rec) ==
    \/ rec.op = "reset_conversation"
    \/ rec.op = "set_character" /\ changing_character(rec.pre, rec.arg)

C25_LogAppendOnly ==
    /\ \A c \in DOMAIN last.pre_convs :
          LET old == last.pre_convs[c]
          IN  IF c \in DOMAIN conversations
                THEN /\ IsPrefix(old.messages, conversations[c].messages)
                     /\ [conversations[c] EXCEPT !.messages = old.messages] = old
                ELSE \/ Discarding(last) /\ c = last.pre.conversation_id
                     \/ last.op = "cleanup_expired_sessions"
    /\ Discarding(last) => last.pre.conversation_id \notin DOMAIN conversations
    /\ \A c \in DOMAIN conversations \ DOMAIN last.pre_convs :
          conversations[c].messages = <<>>

\* a message has been appended to a log that held one already
C25_Witness ==
    /\ last.op = "send_message"
    /\ Len(Log(last.pre_convs, last.pre)) = 1
    /\ Len(Log(conversations, Cur)) = 2
    /\ Cur.conversation_id = last.pre.conversation_id


\* ------------------------------------------------------------------------
\* C26: a session's character id changes only in a set_character that
\* changes the character: send_message, reset_conversation and
\* get_session_info leave it as it was, and the set_character that changes
\* it sets the assistant, a new thread and a new, empty Conversation in the
\* same operation, the previous thread and Conversation being dropped.
\* ------------------------------------------------------------------------
C26_PersonaChangesOnlyInSelect ==
    last.user \in DOMAIN sessions =>
        /\ last.op \in {"send_message", "reset_conversation", "get_session_info"}
               => Cur.character_id = last.pre.character_id
        /\ Cur.character_id # last.pre.character_id =>
               /\ last.op = "set_character" /\ last.ok
               /\ Cur.character_id = last.arg
               /\ Ready(Cur)
               /\ Cur.thread_id # last.pre.thread_id
               /\ Cur.thread_id \notin ThreadsHeld(Empty, last.pre_convs)
               /\ Cur.conversation_id \in DOMAIN conversations
               /\ Cur.conversation_id \notin DOMAIN last.pre_convs
               /\ Log(conversations, Cur) = <<>>
               /\ last.pre.conversation_id \notin DOMAIN conversations
               /\ last.pre.thread_id \notin remote_threads
                      \/ \E c \in CallsOf(last, "delete_thread") : ~c.ok

\* a READY session with a log has changed its character
C26_Witness ==
    /\ last.op = "set_character" /\ last.ok
    /\ Ready(last.pre)
    /\ Log(last.pre_convs, last.pre) # <<>>
    /\ last.pre.character_id = "riley"
    /\ Cur.character_id = "nika"


\* ------------------------------------------------------------------------
\* C27: /status is read-only.  For an unknown user it reports no session
\* and creates none; for a known user no field of any session, its time of
\* last activity included, and no Conversation changes; the message count
\* it reports is the length of the session's log, 0 without a Conversation.
\* ------------------------------------------------------------------------
C27_StatusIsReadOnly ==
    [][(last' # last /\ last'.op = "get_session_info") =>
          /\ sessions' = sessions
          /\ conversations' = conversations
          /\ assistants_cache' = assistants_cache
          /\ remote_threads' = remote_threads
          /\ last'.pre_sessions = sessions
          /\ last'.calls = <<>>
          /\ (last'.result = None) <=> (last'.user \notin DOMAIN sessions)
          /\ last'.count = Len(Log(conversations,
                                   SessionOf(sessions, last'.user)))]_vars

\* /status on a session idle for a second, with a log of two messages
C27_Witness ==
    /\ last.op = "get_session_info"
    /\ last.user \in DOMAIN sessions
    /\ last.pre_sessions = sessions
    /\ sessions[last.user].idle = 1
    /\ last.count = 2
    /\ Len(Log(conversations, Cur)) = 2


\* ------------------------------------------------------------------------
\* C28: the steps of a set_character that changes the character of a READY
\* session come in order.  Called, it first issues delete_thread for the
\* thread the session holds; from there it goes to the lookup or creation
\* of the assistant, from there to create_thread, and it never leaves
\* without reaching the assistant.  The session is bound anew only in the
\* step in which create_thread has answered: to the character asked for,
\* the assistant found and the thread just created, with a new empty
\* Conversation that carries the three, the user's previous Conversation
\* being out of the store.
\* ------------------------------------------------------------------------
Selecting(l) == {t \in l.tasks : t.op = "set_character"}

\* the remote call a suspended set_character may go on to
Follows ==
    {<<"delete_thread", "retrieve_assistant">>,
     <<"delete_thread", "create_assistant">>,
     <<"retrieve_assistant", "create_assistant">>,
     <<"retrieve_assistant", "create_thread">>,
     <<"create_assistant", "create_thread">>}

C28_SelectStepsInOrder ==
    [][/\ \A t2 \in Selecting(loop') :
             IF \E t \in loop.tasks : t.seq = t2.seq
               THEN \A t \in loop.tasks :
                        t.seq = t2.seq => (t2 = t \/ <<t.pc, t2.pc>> \in Follows)
               ELSE Ready(SessionOf(sessions, t2.user)) =>
                        /\ t2.pc = "delete_thread"
                        /\ t2.thread_id = sessions[t2.user].thread_id
       /\ \A t \in Selecting(loop) :
             (\A t2 \in loop'.tasks : t2.seq # t.seq) => t.pc # "delete_thread"
       /\ \A u \in DOMAIN sessions' :
             LET old == SessionOf(sessions, u)
                 new == sessions'[u]
             IN  (Binding(new) # Binding(old) /\ IsSet(new.thread_id)) =>
                   \E t \in Selecting(loop) :
                       /\ t.user = u /\ t.pc = "create_thread"
                       /\ \A t2 \in loop'.tasks : t2.seq # t.seq
                       /\ new.character_id = t.arg
                       /\ new.assistant_id = t.assistant_id
                       /\ new.thread_id \in remote_threads' \ remote_threads
                       /\ new.conversation_id \in DOMAIN conversations'
                       /\ conversations'[new.conversation_id] =
                              Conversation(new.conversation_id, u, t.arg,
                                           t.assistant_id, new.thread_id)
                       /\ \A c \in DOMAIN conversations' :
                              conversations'[c].user_id = u
                                  => c = new.conversation_id
       /\ \A t \in Selecting(loop) :
             (/\ t.pc = "create_thread"
              /\ \A t2 \in loop'.tasks : t2.seq # t.seq
              /\ loop'.finished[Len(loop'.finished)].ok)
                 => /\ Ready(sessions'[t.user])
                    /\ sessions'[t.user].character_id = t.arg]_vars

\* a selection of nika has returned on a session that was READY with riley,
\* whose thread delete_thread was called for
C28_Witness ==
    /\ Len(loop.finished) = 2
    /\ loop.tasks = {}
    /\ \A i \in {1, 2} : loop.finished[i].op = "set_character" /\ loop.finished[i].ok
    /\ loop.finished[1].arg = "riley"
    /\ loop.finished[2].arg = "nika"
    /\ loop.deleted = {1}
    /\ \E u \in DOMAIN sessions :
           /\ sessions[u].character_id = "nika"
           /\ sessions[u].thread_id = 2
           /\ Log(conversations, sessions[u]) = <<>>


\* ------------------------------------------------------------------------
\* C29: when get_or_create_assistant finds a cached assistant whose remote
\* lookup fails, it goes on to create one; the id it returns is never the
\* one whose lookup failed, and when the creation fails too the call fails
\* and the cache holds no assistant for that character.
\* ------------------------------------------------------------------------
C29_StaleAssistantDropped ==
    \A i \in DOMAIN last.calls :
        (last.calls[i].op = "retrieve_assistant" /\ ~last.calls[i].ok) =>
            LET stale == last.calls[i].arg
            IN  /\ i < Len(last.calls)
                /\ last.calls[i + 1].op = "create_assistant"
                /\ last.calls[i + 1].arg = last.arg
                /\ Cur.assistant_id # stale
                /\ IF last.calls[i + 1].ok
                      THEN /\ last.arg \in DOMAIN assistants_cache
                           /\ assistants_cache[last.arg] # stale
                           /\ last.ok =>
                                  Cur.assistant_id = assistants_cache[last.arg]
                      ELSE /\ ~last.ok
                           /\ last.arg \notin DOMAIN assistants_cache

\* the lookup of a cached assistant failed and so did the creation
C29_Witness ==
    /\ last.op = "set_character" /\ ~last.ok
    /\ \E c \in CallsOf(last, "retrieve_assistant") : ~c.ok /\ IsSet(c.arg)
    /\ \E c \in CallsOf(last, "create_assistant") : ~c.ok
    /\ last.arg \notin DOMAIN assistants_cache


\* ------------------------------------------------------------------------
\* C30: _wait_for_run_completion terminates.  Every remote call being
\* answered, a wait that has started comes to its end whatever statuses the
\* run goes through; it ends with a response text, with TimeoutError, with
\* the run-failed error or with the no-response error, unless a remote
\* call raised; and with timeout T it polls the status at most T + 1
\* times, every poll but the first being a second or more after the one
\* before.
\* ------------------------------------------------------------------------
C30_WaitTerminates ==
    /\ (run.pc # "idle") ~> (run.pc = "done")
    /\ [](/\ run.polls <= run.timeout + 1
          /\ run.pc \in {"check", "retrieve"} =>
                 run.elapsed >= run.polls * Second
          /\ run.pc = "done" =>
                 \/ run.result = "RemoteUnavailable"
                 \/ run.result \in {"Timeout", "RemoteRunFailed", "ProtocolError"}
                 \/ /\ run.status = "completed"
                    /\ \E i \in TextParts(run.listing) :
                           run.result = run.listing[1].content[i].value)

\* a wait of two seconds has timed out after two polls of a pending run
C30_Witness ==
    /\ run.pc = "done"
    /\ run.result = "Timeout"
    /\ run.timeout = 2
    /\ run.polls = 2


\* ------------------------------------------------------------------------
\* C31: the wait that send_message starts is bounded by the configured
\* Settings.assistant_timeout T: no poll starts later than T seconds after
\* the start, and TimeoutError is raised once more than T seconds, and no
\* more than T seconds plus a sleep and a poll, have elapsed.
\* ------------------------------------------------------------------------
C31_ConfiguredTimeoutApplies ==
    IsSet(run.assistant_timeout) =>
        /\ run.pc = "retrieve" =>
               run.elapsed <= run.assistant_timeout * Second
        /\ run.result = "Timeout" =>
               /\ run.elapsed > run.assistant_timeout * Second
               /\ run.elapsed <= run.assistant_timeout * Second + Second
                                     + run.slowest


\* ------------------------------------------------------------------------
\* C32: the sweep makes no call to the AssistantService: the remote threads
\* and the assistants cache are left as they were, so the thread of a
\* removed session stays alive remotely while no session holds it any more.
\* ------------------------------------------------------------------------
C32_SweepMakesNoRemoteCall ==
    [][(last' # last /\ last'.op = "cleanup_expired_sessions") =>
          /\ last'.calls = <<>>
          /\ remote_threads' = remote_threads
          /\ assistants_cache' = assistants_cache
          /\ \A u \in DOMAIN sessions \ DOMAIN sessions' :
                 LET thread_id == sessions[u].thread_id
                 IN  /\ thread_id \in remote_threads
                            => thread_id \in remote_threads'
                     /\ IsSet(thread_id) =>
                            \A v \in DOMAIN sessions' :
                                sessions'[v].thread_id # thread_id]_vars

\* a sweep has removed a session whose thread is still alive remotely
C32_Witness ==
    /\ last.op = "cleanup_expired_sessions"
    /\ last.count = 1
    /\ \E u \in DOMAIN last.pre_sessions \ DOMAIN sessions :
           /\ last.pre_sessions[u].thread_id \in remote_threads
           /\ last.pre_sessions[u].character_id \in DOMAIN assistants_cache
    /\ DOMAIN sessions # {}


\* ------------------------------------------------------------------------
\* SpecLate: send_message on one thread, with the hosted side of the thread:
\* the run a local wait gave up keeps running there and may complete later
\* ------------------------------------------------------------------------
MaxSends == 4

\* the text the run writes into the thread when it completes
ResponseOf(run_id) == "response of run " \o ToString(run_id)

\* the hosted API refuses a message or a run on a thread with an active run
active_run(h) == \E k \in DOMAIN h.runs : h.runs[k] = "in_progress"

\* messages.list(thread_id, limit=1): the newest message of the thread
latest(messages) ==
    IF messages = <<>> THEN <<>> ELSE <<messages[Len(messages)]>>

wait_timed_out_still_waiting(h) ==
    [h EXCEPT !.abandoned = @ \cup {h.awaited}]

\* raise TimeoutError: the wait ends, the run is not asked about again
wait_timed_out(h) ==
    [h EXCEPT !.awaited = NoId, !.abandoned = @ \cup {h.awaited}]

UserMessages(messages) == {i \in DOMAIN messages : messages[i].role = USER}

InitLate == InitHistory

\* ConversationService.send_message up to the wait for the run:
\* the user message is logged, then messages.create and runs.create
BeginSendMessage ==
    \E u \in DOMAIN sessions, text \in Texts :
        LET session == sessions[u]
            conv == session.conversation_id
            logged == [conversations EXCEPT ![conv] = add_user_message(@, text)]
            run_id == Len(hosted.runs) + 1
        IN  /\ hosted.awaited = NoId
            /\ Cardinality(UserMessages(conversations[conv].messages)) < MaxSends
            /\ conversations' = logged
            /\ IF active_run(hosted)
                 THEN /\ hosted' = hosted
                      /\ last' = Record("send_message", u, text, TRUE, None, 0,
                                        "RemoteUnavailable", <<>>, Pre(u), conversations)
                 ELSE /\ hosted' =
                            [hosted EXCEPT
                                !.messages = Append(@, [role |-> USER,
                                                        content |-> <<TextPart(text)>>]),
                                !.runs = Append(@, "in_progress"),
                                !.awaited = run_id]
                      /\ last' = last
            /\ UNCHANGED <<sessions, assistants_cache, remote_threads, next_session,
                           next_conversation, next_thread, next_assistant, run, loop,
                           remote_assistants, characters, first_added, persisted>>

\* the hosted side: a run completes and writes its reply into the thread,
\* whether or not anyone still waits for it
RunCompletes ==
    \E k \in DOMAIN hosted.runs :
        /\ hosted.runs[k] = "in_progress"
        /\ hosted' =
               [hosted EXCEPT
                   !.runs[k] = "completed",
                   !.messages = Append(@, [role |-> ASSISTANT,
                                           content |-> <<TextPart(ResponseOf(k))>>])]
        /\ UNCHANGED <<sessions, conversations, assistants_cache, remote_threads,
                       next_session, next_conversation, next_thread, next_assistant,
                       last, run, loop, remote_assistants, characters,
                       first_added, persisted>>

\* the hosted side: a run fails and writes nothing
RunFails ==
    \E k \in DOMAIN hosted.runs :
        /\ hosted.runs[k] = "in_progress"
        /\ hosted' = [hosted EXCEPT !.runs[k] = "failed"]
        /\ UNCHANGED <<sessions, conversations, assistants_cache, remote_threads,
                       next_session, next_conversation, next_thread, next_assistant,
                       last, run, loop, remote_assistants, characters,
                       first_added, persisted>>

\* the poll sees the awaited run ended: send_message logs and returns the
\* reply of a completed run, and returns None for a failed one
WaitReturns ==
    \E u \in DOMAIN sessions :
        LET session == sessions[u]
            conv == session.conversation_id
            response == IF hosted.runs[hosted.awaited] = "completed"
                          THEN completed_run(latest(hosted.messages))
                          ELSE "RemoteRunFailed"
        IN  /\ IsSet(hosted.awaited)
            /\ hosted.runs[hosted.awaited] # "in_progress"
            /\ hosted' = [hosted EXCEPT !.awaited = NoId]
            /\ IF response \in RunErrors
                 THEN /\ UNCHANGED <<sessions, conversations>>
                      /\ last' = Record("send_message", u, None, TRUE, None, 0,
                                        response, <<>>, Pre(u), conversations)
                 ELSE /\ conversations' =
                            [conversations EXCEPT ![conv] = add_assistant_message(@, response)]
                      /\ sessions' = [sessions EXCEPT ![u] = update_activity(@)]
                      /\ last' = Record("send_message", u, None, TRUE, response, 0,
                                        response, <<>>, Pre(u), conversations)
            /\ UNCHANGED <<assistants_cache, remote_threads, next_session,
                           next_conversation, next_thread, next_assistant, run, loop,
                           remote_assistants, characters, first_added, persisted>>

\* the time check at the top of the poll loop fires, whatever the run has
\* become since the last poll; send_message returns None
WaitTimesOut ==
    \E u \in DOMAIN sessions :
        /\ IsSet(hosted.awaited)
        /\ hosted' = wait_timed_out(hosted)
        /\ last' = Record("send_message", u, None, TRUE, None, 0,
                          "Timeout", <<>>, Pre(u), conversations)
        /\ UNCHANGED <<sessions, conversations, assistants_cache, remote_threads,
                       next_session, next_conversation, next_thread, next_assistant,
                       run, loop, remote_assistants, characters, first_added,
                       persisted>>

NextLate == BeginSendMessage \/ RunCompletes \/ RunFails \/ WaitReturns \/ WaitTimesOut

SpecLate == InitLate /\ [][NextLate]_vars

AbandonedResponses == {ResponseOf(k) : k \in hosted.abandoned}

UnknownCharacters == {"ghost"}

\* set_character for a character the repository returned, and the answer
selected(w, user_id, character_id, deleteOk, lookupOk, createOk, threadOk) ==
    LET r == set_character(w, user_id, character_id, deleteOk, lookupOk, createOk, threadOk)
    IN  [w |-> r.w, ok |-> r.ok,
         answer |-> IF r.ok THEN "Selected"
                    ELSE "Failed to select character. Please try again."]

handle_character_selection_unchecked(w, chars, user_id, character_id, deleteOk, lookupOk, createOk, threadOk) ==
    IF character_id \in DOMAIN chars
      THEN selected(w, user_id, character_id, deleteOk, lookupOk, createOk, threadOk)
      ELSE [w |-> get_or_create_session(w, user_id), ok |-> FALSE,
            answer |-> "Failed to select character. Please try again."]

\* CallbackHandler._handle_character_selection: returns [w, ok, answer]
handle_character_selection(w, chars, user_id, character_id, deleteOk, lookupOk, createOk, threadOk) ==
    IF character_id \notin DOMAIN chars
      THEN [w |-> w, ok |-> TRUE, answer |-> "Character not found"]
      ELSE selected(w, user_id, character_id, deleteOk, lookupOk, createOk, threadOk)

HandleCharacterSelection ==
    \E u \in Users, c \in Characters \cup UnknownCharacters :
      LET changing == c \in DOMAIN characters /\ changing_character(Pre(u), c)
          cached == c \in DOMAIN assistants_cache IN
      \E deleteOk \in Outcomes(changing /\ IsSet(Pre(u).thread_id)),
         lookupOk \in Outcomes(changing /\ cached) :
      \E createOk \in Outcomes(changing /\ ~(cached /\ lookupOk)) :
      \E threadOk \in Outcomes(changing /\ createOk) :
        \E r \in {handle_character_selection(World, characters, u, c, deleteOk,
                                             lookupOk, createOk, threadOk)} :
            Commit(r.w, Record("handle_character_selection", u, c, r.ok, r.answer,
                               0, None, r.w.calls, Pre(u), conversations))

NextSelect == HandleCharacterSelection \/ ResetConversation \/ Tick

SpecSelect == Init /\ [][NextSelect]_vars

\* C34: selecting an id the repository does not hold is answered with
\* "Character not found" and the handler returns normally; no session and no
\* conversation is created or changed and no remote operation is invoked
C34_UnknownPersonaNotFound ==
    [][(last' # last /\ last'.op = "handle_character_selection"
          /\ last'.arg \notin DOMAIN characters) =>
            /\ last'.ok
            /\ last'.result = "Character not found"
            /\ last'.calls = <<>>
            /\ sessions' = sessions
            /\ conversations' = conversations
            /\ assistants_cache' = assistants_cache
            /\ remote_threads' = remote_threads]_vars

\* an unknown id was selected by a user whose session is READY
C34_Witness ==
    /\ last.op = "handle_character_selection"
    /\ last.arg \in UnknownCharacters
    /\ last.result = "Character not found"
    /\ last.user \in DOMAIN sessions
    /\ Ready(sessions[last.user])


\* ------------------------------------------------------------------------
\* SpecAgents: AssistantService.get_or_create_assistant awaited by several
\* callers at once; each call suspends at _get_assistant and at
\* _create_assistant and the calls resume in any order
\* ------------------------------------------------------------------------
MaxCalls == 3

\* the cache is empty, or holds an assistant for riley that is alive on the
\* hosted side or was deleted there
InitAgents ==
    \E cached \in BOOLEAN, alive \in BOOLEAN :
        /\ sessions = Empty
        /\ conversations = Empty
        /\ assistants_cache = IF cached THEN Put(Empty, "riley", 1) ELSE Empty
        /\ remote_assistants = IF cached /\ alive THEN {1} ELSE {}
        /\ remote_threads = {}
        /\ next_session = 1
        /\ next_conversation = 1
        /\ next_thread = 1
        /\ next_assistant = IF cached THEN 2 ELSE 1
        /\ last = NoOp
        /\ run = NoRun
        /\ loop = NoLoop
        /\ characters = load_default_characters
        /\ hosted = NoHosted
        /\ first_added = load_default_characters
        /\ persisted = NoPersisted

\* a caller awaits get_or_create_assistant(character): the call runs to its
\* first remote call
CallGetOrCreateAssistant ==
    /\ loop.issued < MaxCalls
    /\ \E u \in BothUsers, c \in Characters :
         /\ \A t \in loop.tasks : t.user # u
         /\ \E r \in {begin_assistant(World, Task([seq |-> loop.issued + 1, user |-> u,
                                                   op |-> "get_or_create_assistant",
                                                   arg |-> c]))} :
                loop' = Settle([loop EXCEPT !.issued = @ + 1], r.task, r.task)
    /\ UNCHANGED <<sessions, conversations, assistants_cache, remote_threads,
                   next_session, next_conversation, next_thread, next_assistant,
                   last, run, models>>

\* _get_assistant or _create_assistant is answered and the call runs on: to
\* its next remote call, to its return, or to the exception it raises.
\* last: result is the exception, count the assistant the call had looked up
AnswerGetOrCreateAssistant ==
    \E t \in loop.tasks :
      \E ok \in IF t.pc = "retrieve_assistant" /\ t.assistant_id \notin remote_assistants
                  THEN {FALSE} ELSE BOOLEAN :
        \E r \in {resume(World, t, ok, None)} :
          LET returned == r.task.pc = "create_thread"
              task == IF returned THEN Returned(r.w, r.task).task ELSE r.task
              error == IF r.task.ok THEN None
                       ELSE IF t.pc = "retrieve_assistant" THEN "KeyError"
                       ELSE "RemoteUnavailable"
          IN  /\ r.w.next_assistant <= MaxAssistants + 1
              /\ assistants_cache' = r.w.assistants_cache
              /\ next_assistant' = r.w.next_assistant
              /\ remote_assistants' =
                     IF t.pc = "create_assistant" /\ ok
                       THEN remote_assistants \cup {next_assistant}
                       ELSE remote_assistants
              /\ loop' = Settle(loop, t, task)
              /\ last' = Record("get_or_create_assistant", t.user, t.arg, r.task.ok,
                                error, t.assistant_id, None, <<>>, NoSession, Empty)
              /\ UNCHANGED <<sessions, conversations, remote_threads, next_session,
                             next_conversation, next_thread, run, hosted, characters,
                             first_added, persisted>>

NextAgents == CallGetOrCreateAssistant \/ AnswerGetOrCreateAssistant

SpecAgents == InitAgents /\ [][NextAgents]_vars

\* C35: get_or_create_assistant calls for one character that interleave at
\* their remote calls are safe: none raises KeyError on the cache, none
\* deletes a cache entry other than the one it looked up, and once all have
\* ended the cache entry of the character is an assistant alive remotely
C35_ConcurrentEnsureAgentSafe ==
    /\ [](last.op = "get_or_create_assistant" => last.result # "KeyError")
    /\ [][\A c \in DOMAIN assistants_cache \ DOMAIN assistants_cache' :
              assistants_cache[c] = last'.count]_vars
    /\ [](loop.tasks = {} =>
            \A c \in DOMAIN assistants_cache :
                (\E i \in DOMAIN loop.finished : loop.finished[i].arg = c) =>
                    assistants_cache[c] \in remote_assistants)


\* ------------------------------------------------------------------------
\* SpecRecent: get_conversation_history between selections and messages
\* ------------------------------------------------------------------------
MaxLimit == 3

\* python's seq[start:]: a negative start counts from the end, and a start
\* outside the list is clipped to it
slice_from(seq, start) ==
    LET n == Len(seq)
        from == IF start < 0 THEN (IF start + n < 0 THEN 0 ELSE start + n)
                ELSE IF start > n THEN n ELSE start
    IN  SubSeq(seq, from + 1, n)

\* Conversation.get_recent_messages: self.messages[-limit:] if self.messages else []
get_recent_messages(c, limit) ==
    IF c.messages # <<>> THEN slice_from(c.messages, 0 - limit) ELSE <<>>

\* ConversationService.get_conversation_history: returns [w, found, history]
get_conversation_history(w, user_id, limit) ==
    LET w1 == get_or_create_session(w, user_id)
        session == w1.sessions[user_id]
        conversation == ConversationOf(w1.conversations, session)
    IN  IF ~IsSet(session.conversation_id)
             \/ session.conversation_id \notin DOMAIN w1.conversations
          THEN [w |-> w1, found |-> FALSE, history |-> NoConversation]
          ELSE [w |-> w1, found |-> TRUE,
                history |-> [conversation EXCEPT
                                !.messages = get_recent_messages(conversation, limit)]]

\* last.history is the Conversation returned
GetConversationHistory ==
    \E u \in Users, limit \in 0..MaxLimit :
        \E r \in {get_conversation_history(World, u, limit)} :
            Commit(r.w, [history |-> r.history] @@
                        Record("get_conversation_history", u, limit, TRUE,
                               IF r.found THEN "found" ELSE None, 0, None, <<>>,
                               Pre(u), conversations))

NextRecent == SetCharacter \/ SendMessage \/ GetConversationHistory

SpecRecent == Init /\ [][NextRecent]_vars

Min(a, b) == IF a < b THEN a ELSE b

\* C36: get_conversation_history(U, limit) leaves the stored Conversations
\* as they are and returns a copy holding the last min(limit, n) of the n
\* stored messages in their order, never more than limit, limit 0 included
C36_RecentIsLastMinLimitN ==
    [][(last' # last /\ last'.op = "get_conversation_history"
          /\ last'.result = "found") =>
            LET stored == Log(conversations, sessions'[last'.user])
                n == Len(stored)
                k == Min(last'.arg, n)
            IN  /\ conversations' = conversations
                /\ Len(last'.history.messages) <= last'.arg
                /\ last'.history.messages = SubSeq(stored, n - k + 1, n)
                /\ last'.history =
                       [ConversationOf(conversations, sessions'[last'.user])
                           EXCEPT !.messages = last'.history.messages]]_vars


\* ------------------------------------------------------------------------
\* SpecFrame: the four operations called for one user, on the stores that
\* the handlers of another user left some seconds before
\* ------------------------------------------------------------------------
OtherUser == SweepUsers[2]

InitFrame ==
    \E h \in Histories, gap \in 0..MaxIdle :
      \E w \in {elapse(History(EmptyWorld, OtherUser, h), gap)} :
        /\ sessions = w.sessions
        /\ conversations = w.conversations
        /\ assistants_cache = w.assistants_cache
        /\ remote_threads = w.remote_threads
        /\ next_session = w.next_session
        /\ next_conversation = w.next_conversation
        /\ next_thread = w.next_thread
        /\ next_assistant = w.next_assistant
        /\ last = NoOp
        /\ run = NoRun
        /\ loop = NoLoop
        /\ characters = load_default_characters
        /\ remote_assistants = {}
        /\ hosted = NoHosted
        /\ first_added = load_default_characters
        /\ persisted = NoPersisted

NextFrame ==
    \/ SetCharacter
    \/ SendMessage
    \/ ResetConversation
    \/ GetSessionInfo

SpecFrame == InitFrame /\ [][NextFrame]_vars

\* the Conversations of a user, by id
ConversationsOf(cs, user_id) == {c \in DOMAIN cs : cs[c].user_id = user_id}

\* C37: set_character, send_message, reset_conversation and get_session_info
\* for user U, whether they succeed or fail, leave every other user's session
\* and Conversations, and the remote thread of that session, as they were
C37_OtherUsersUntouched ==
    [][(last' # last) =>
          \A v \in BothUsers \ {last'.user} :
              /\ (v \in DOMAIN sessions') = (v \in DOMAIN sessions)
              /\ SessionOf(sessions', v) = SessionOf(sessions, v)
              /\ ConversationsOf(conversations', v) = ConversationsOf(conversations, v)
              /\ \A c \in ConversationsOf(conversations, v) :
                     conversations'[c] = conversations[c]
              /\ SessionOf(sessions, v).thread_id \in remote_threads =>
                     SessionOf(sessions, v).thread_id \in remote_threads']_vars

\* the other user has a READY session with messages, idle for a while, when
\* a reset that deleted a thread and a Conversation has just returned
C37_Witness ==
    /\ last.user \in Users
    /\ last.op = "reset_conversation"
    /\ last.calls # <<>>
    /\ Log(last.pre_convs, last.pre) # <<>>
    /\ OtherUser \in DOMAIN sessions
    /\ Ready(sessions[OtherUser])
    /\ Log(conversations, sessions[OtherUser]) # <<>>
    /\ sessions[OtherUser].idle > 0


\* C38: no operation clears a session's is_active: every session in the
\* store is active, get_active_sessions_count is the number of sessions in
\* the store, and a sweep removes exactly the sessions idle for longer than
\* its timeout
C38_SessionsAlwaysActive ==
    /\ \A u \in DOMAIN sessions : sessions[u].is_active
    /\ get_active_sessions_count(World) = Cardinality(DOMAIN sessions)
    /\ last.op = "cleanup_expired_sessions" =>
           last.count = Cardinality({u \in DOMAIN last.pre_sessions :
                                        last.pre_sessions[u].idle > last.arg})

\* a sweep has just removed a READY session that had been selected, used
\* and left idle
C38_Witness ==
    /\ last.op = "cleanup_expired_sessions"
    /\ last.count = 1
    /\ Ready(last.pre)
    /\ Log(last.pre_convs, last.pre) # <<>>
    /\ DOMAIN sessions = {}


\* C39: a session with a thread id has a persona id and a conversation id
\* that maps to a stored Conversation with the session's user id, persona,
\* assistant and thread; send_message on such a session finds its
\* Conversation and goes on to the remote call
C39_ThreadImpliesConversation ==
    /\ \A u \in DOMAIN sessions :
           IsSet(sessions[u].thread_id) =>
               /\ sessions[u].character_id # None
               /\ IsSet(sessions[u].conversation_id)
               /\ sessions[u].conversation_id \in DOMAIN conversations
               /\ LET c == conversations[sessions[u].conversation_id]
                  IN  /\ c.user_id = u
                      /\ c.character_id = sessions[u].character_id
                      /\ c.assistant_id = sessions[u].assistant_id
                      /\ c.thread_id = sessions[u].thread_id
    /\ (last.op = "send_message" /\ IsSet(last.pre.thread_id)) =>
           /\ last.pre.conversation_id \in DOMAIN last.pre_convs
           /\ last.calls # <<>>

\* a message has just been sent on a session that got its thread and its
\* Conversation from a later selection than the first
C39_Witness ==
    /\ last.op = "send_message"
    /\ IsSet(last.pre.thread_id)
    /\ last.pre.conversation_id > 1
    /\ last.user \in DOMAIN sessions
    /\ IsSet(sessions[last.user].thread_id)
    /\ Log(conversations, sessions[last.user]) # <<>>


\* C40: every stored Conversation is the conversation of exactly one stored
\* session; reset, persona change, a failed selection and the sweep leave no
\* Conversation behind, and there are never more Conversations than sessions
C40_NoOrphanConversation ==
    /\ \A c \in DOMAIN conversations :
           Cardinality({u \in DOMAIN sessions : sessions[u].conversation_id = c}) = 1
    /\ get_total_conversations_count(World) <= Cardinality(DOMAIN sessions)

\* a selection of another persona has just failed at the remote side, after
\* it had removed the Conversation of the session, which held messages
C40_Witness ==
    /\ last.op = "set_character"
    /\ ~last.ok
    /\ Log(last.pre_convs, last.pre) # <<>>
    /\ last.user \in DOMAIN sessions
    /\ conversations = Empty

====
